---- MODULE Spec2Model ----
(***************************************************************************)
(* A model of the TradingStrategy runtime of nautilus_trader                *)
(* (nautilus_trader/trading/strategy.pyx): the component FSM driven by      *)
(* start/stop/resume/reset/dispose, the market-data and event handlers,    *)
(* the stop-loss / take-profit / flattening id sets and the commands the   *)
(* strategy passes to the execution engine.                                *)
(*                                                                         *)
(* The strategy is modelled from the moment it has been registered with a  *)
(* trader (register_trader has set log, clock, order_factory and           *)
(* position_id_generator); the data engine and the execution engine are    *)
(* registered by separate calls and start unregistered.                    *)
(*                                                                         *)
(* A method of the strategy is an operator from a strategy record (every   *)
(* field of the object, its collaborators, the exception raised so far and *)
(* the trace of observable effects of the call) to the record after the    *)
(* call; an action applies one method to the current state.                *)
(*                                                                         *)
(* The module also models the Account aggregate                            *)
(* (nautilus_trader/accounting/accounts/base.pyx): an account built from   *)
(* its first AccountState event, to which further events are applied.      *)
(***************************************************************************)
EXTENDS Integers, Sequences, FiniteSets, TLC

\* ---- bounds -------------------------------------------------------------
MaxOrders == 2
MaxPositions == 1
MaxIndicators == 2
MaxRegistrations == 2
MaxCount == 2
MaxBars == 3
MaxEvents == 3

Quantities == {1, 2}              \* position quantities
Orders == 1..MaxOrders            \* ClientOrderId values
Positions == 1..MaxPositions      \* ClientPositionId values
Indicators == 1..MaxIndicators    \* Indicator instances
Symbols == {"AUDUSD", "GBPUSD"}
BarTypes == {"AUDUSD-1-MIN-BID"}
TimerNames == {"timer1"}
Ticks == {1, 2}                   \* data items (ticks, bars, data objects)
None == 0                         \* Python None for ids and data items

\* ---- state --------------------------------------------------------------
VARIABLES
    _fsm,                       \* self._fsm.state
    _data_engine,               \* self._data_engine is not None
    _exec_engine,               \* self._exec_engine is not None
    flatten_on_stop,
    flatten_on_reject,
    cancel_all_orders_on_stop,
    reraise_exceptions,
    _flattening_ids,
    _stop_loss_ids,
    _take_profit_ids,
    _indicators,
    _indicators_for_quotes,
    _indicators_for_trades,
    _indicators_for_bars,
    order_factory,              \* order_factory.count()
    position_id_generator,      \* position_id_generator.count
    clock,                      \* names of the clock's active timers
    database,                   \* the execution engine's database
    indicator_inputs,           \* last data item each indicator handled
    account,                    \* an Account: id, base currency, events, balances
    order_entity,               \* an Order: status, quantities, applied events
    on_start_completed,         \* history, kept by the actions that record it:
                                \* on_start has returned normally since
                                \* construction or the last reset
    call                        \* the last call: name, exception, effects

vars == <<_fsm, _data_engine, _exec_engine, flatten_on_stop, flatten_on_reject,
          cancel_all_orders_on_stop, reraise_exceptions, _flattening_ids,
          _stop_loss_ids, _take_profit_ids, _indicators, _indicators_for_quotes,
          _indicators_for_trades, _indicators_for_bars, order_factory,
          position_id_generator, clock, database, indicator_inputs, account,
          order_entity, on_start_completed, call>>

\* The variables of the strategy and its collaborators.
strategy_vars ==
    <<_fsm, _data_engine, _exec_engine, flatten_on_stop, flatten_on_reject,
      cancel_all_orders_on_stop, reraise_exceptions, _flattening_ids,
      _stop_loss_ids, _take_profit_ids, _indicators, _indicators_for_quotes,
      _indicators_for_trades, _indicators_for_bars, order_factory,
      position_id_generator, clock, database, indicator_inputs, order_entity,
      on_start_completed>>

\* The strategy object and its collaborators as one record; raised, trace and
\* result belong to the call in progress (result: <<>> for None, <<v>> for a
\* returned value v).
Self ==
    [_fsm |-> _fsm, _data_engine |-> _data_engine, _exec_engine |-> _exec_engine,
     flatten_on_stop |-> flatten_on_stop, flatten_on_reject |-> flatten_on_reject,
     cancel_all_orders_on_stop |-> cancel_all_orders_on_stop,
     reraise_exceptions |-> reraise_exceptions,
     _flattening_ids |-> _flattening_ids, _stop_loss_ids |-> _stop_loss_ids,
     _take_profit_ids |-> _take_profit_ids, _indicators |-> _indicators,
     _indicators_for_quotes |-> _indicators_for_quotes,
     _indicators_for_trades |-> _indicators_for_trades,
     _indicators_for_bars |-> _indicators_for_bars,
     order_factory |-> order_factory, position_id_generator |-> position_id_generator,
     clock |-> clock, database |-> database, indicator_inputs |-> indicator_inputs,
     order_entity |-> order_entity,
     raised |-> "none", trace |-> <<>>, result |-> <<>>]

\* One observable effect of a call: a user callback invoked, a command passed
\* to the execution engine, an indicator updated, a log record written.
Effect(kind, name, id) == [kind |-> kind, name |-> name, id |-> id]

Emit(s, kind, name, id) == [s EXCEPT !.trace = Append(@, Effect(kind, name, id))]

Raise(s, exception) == [s EXCEPT !.raised = exception]

\* The arguments of a call: an event type, symbol or bar type, an id or data
\* item, and the is_historical flag.
Args(type, id, is_historical) ==
    [type |-> type, id |-> id, is_historical |-> is_historical]

NoArgs == Args("", None, FALSE)

\* on_start was invoked in the trace and returned normally: no exception was
\* logged right after it.
OnStartReturned(trace) ==
    \E k \in 1..Len(trace) :
        /\ trace[k] = Effect("callback", "on_start", None)
        /\ k < Len(trace) => trace[k + 1] # Effect("log", "exception", None)

\* on_reset was invoked in the trace: the reset went through.
WasReset(trace) ==
    \E k \in 1..Len(trace) : trace[k] = Effect("callback", "on_reset", None)

\* The history after a call that left the given trace.
Recorded(completed, trace) ==
    IF WasReset(trace) THEN FALSE
    ELSE IF OnStartReturned(trace) THEN TRUE
    ELSE completed

\* The state after the call `name(args)` returned (or raised) with final
\* record s; `from` is the FSM state the call was made in; `completed` is
\* the history after the call.
Returned(name, args, s, completed) ==
    /\ s.order_factory <= MaxCount
    /\ s.position_id_generator <= MaxCount
    /\ _fsm' = s._fsm
    /\ _data_engine' = s._data_engine
    /\ _exec_engine' = s._exec_engine
    /\ flatten_on_stop' = s.flatten_on_stop
    /\ flatten_on_reject' = s.flatten_on_reject
    /\ cancel_all_orders_on_stop' = s.cancel_all_orders_on_stop
    /\ reraise_exceptions' = s.reraise_exceptions
    /\ _flattening_ids' = s._flattening_ids
    /\ _stop_loss_ids' = s._stop_loss_ids
    /\ _take_profit_ids' = s._take_profit_ids
    /\ _indicators' = s._indicators
    /\ _indicators_for_quotes' = s._indicators_for_quotes
    /\ _indicators_for_trades' = s._indicators_for_trades
    /\ _indicators_for_bars' = s._indicators_for_bars
    /\ order_factory' = s.order_factory
    /\ position_id_generator' = s.position_id_generator
    /\ clock' = s.clock
    /\ database' = s.database
    /\ indicator_inputs' = s.indicator_inputs
    /\ account' = account
    /\ order_entity' = s.order_entity
    /\ on_start_completed' = completed
    /\ call' = [name |-> name, args |-> args, from |-> _fsm,
                raised |-> s.raised, trace |-> s.trace, result |-> s.result]

\* The same, the history left as it is.
Return(name, args, s) == Returned(name, args, s, on_start_completed)

\* ---- the component FSM --------------------------------------------------
ComponentStates ==
    {"INITIALIZED", "STARTING", "RUNNING", "STOPPING", "STOPPED", "RESUMING",
     "RESETTING", "DISPOSING", "DISPOSED"}

StableStates == {"INITIALIZED", "RUNNING", "STOPPED", "DISPOSED"}

TransitionalStates == ComponentStates \ StableStates

\* The state-transition table of create_component_fsm(): the state a trigger
\* leads to, or "INVALID" when the FSM raises InvalidStateTrigger.
ComponentFsmTable(st, trigger) ==
    CASE st = "INITIALIZED" /\ trigger = "RESET" -> "RESETTING"
      [] st = "INITIALIZED" /\ trigger = "START" -> "STARTING"
      [] st = "INITIALIZED" /\ trigger = "DISPOSE" -> "DISPOSING"
      [] st = "RESETTING" /\ trigger = "RESET" -> "INITIALIZED"
      [] st = "STARTING" /\ trigger = "RUNNING" -> "RUNNING"
      [] st = "STARTING" /\ trigger = "STOP" -> "STOPPING"
      [] st = "RUNNING" /\ trigger = "STOP" -> "STOPPING"
      [] st = "RESUMING" /\ trigger = "STOP" -> "STOPPING"
      [] st = "RESUMING" /\ trigger = "RUNNING" -> "RUNNING"
      [] st = "STOPPING" /\ trigger = "STOPPED" -> "STOPPED"
      [] st = "STOPPED" /\ trigger = "RESET" -> "RESETTING"
      [] st = "STOPPED" /\ trigger = "RESUME" -> "RESUMING"
      [] st = "STOPPED" /\ trigger = "DISPOSE" -> "DISPOSING"
      [] st = "DISPOSING" /\ trigger = "DISPOSED" -> "DISPOSED"
      [] OTHER -> "INVALID"

TriggerValid(st, trigger) == ComponentFsmTable(st, trigger) # "INVALID"

\* self._fsm.trigger(trigger)
fsm_trigger(s, trigger) ==
    IF TriggerValid(s._fsm, trigger)
    THEN [s EXCEPT !._fsm = ComponentFsmTable(s._fsm, trigger)]
    ELSE Raise(s, "InvalidStateTrigger")

\* A user callback (on_start, on_stop, ...): it is invoked and either returns
\* or raises, as the set `raising` of misbehaving callbacks says.
Callback(s, name, raising) ==
    LET s1 == Emit(s, "callback", name, None)
    IN IF name \in raising THEN Raise(s1, "Exception") ELSE s1

\* self.log.exception(ex): the exception is logged and counts as handled.
log_exception(s) == Emit(Raise(s, "none"), "log", "exception", None)

\* ---- iteration over id sets in ascending order --------------------------
RECURSIVE Ascending(_)
Ascending(S) ==
    IF S = {} THEN <<>>
    ELSE LET m == CHOOSE x \in S : \A y \in S : x <= y
         IN <<m>> \o Ascending(S \ {m})

\* ---- commands ------------------------------------------------------------
\* Condition.not_none(self._exec_engine, "execution_engine")
RequireExecEngine(s) == IF s._exec_engine THEN s ELSE Raise(s, "ValueError")

\* _exec_engine.execute_command(SubmitOrder): the engine records that an
\* order for the position is in flight.
execute_submit_order(s, cl_pos_id) ==
    [s EXCEPT !.database.positions_flattening = @ \cup {cl_pos_id}]

\* submit_order(order, cl_pos_id): one SubmitOrder command for the position.
submit_order(s, cl_pos_id) ==
    LET s1 == RequireExecEngine(s)
    IN IF s1.raised # "none" THEN s1
       ELSE execute_submit_order(Emit(s1, "command", "SubmitOrder", cl_pos_id), cl_pos_id)

\* cancel_order(order): one CancelOrder command for the order.
cancel_order(s, order) ==
    LET s1 == RequireExecEngine(s)
    IN IF s1.raised # "none" THEN s1
       ELSE Emit(s1, "command", "CancelOrder", order)

\* modify_order that sends the command when neither a new quantity nor a new
\* price is given.
modify_order_always(s, order, new_quantity, new_price) ==
    LET s1 == RequireExecEngine(s)
    IN IF s1.raised # "none" THEN s1
       ELSE Emit(s1, "command", "ModifyOrder", order)

\* modify_order(order, new_quantity, new_price): one ModifyOrder command for
\* the order, unless both the new quantity and the new price are None.
modify_order(s, order, new_quantity, new_price) ==
    LET s1 == RequireExecEngine(s)
    IN IF s1.raised # "none" THEN s1
       ELSE IF new_quantity = None /\ new_price = None
            THEN Emit(s1, "log", "modify_both_none", order)
       ELSE Emit(s1, "command", "ModifyOrder", order)

\* The order sides and the market positions of a position.
OrderSides == {"BUY", "SELL"}

MarketPositions == {"FLAT", "LONG", "SHORT"}

\* position.market_position: the side the position was opened on while it is
\* open, FLAT once it is closed.
market_position(s, cl_pos_id) ==
    IF s.database.positions[cl_pos_id] = "open"
    THEN s.database.market_position[cl_pos_id]
    ELSE "FLAT"

\* get_flatten_side returning the side the position was opened on.
get_flatten_side_same(mp) == IF mp = "SHORT" THEN "SELL" ELSE "BUY"

get_flatten_side(mp) == IF mp = "SHORT" THEN "BUY" ELSE "SELL"

\* order_factory.market(symbol, side, quantity): the factory hands out the
\* next order id for a market order of that side and quantity.
order_factory_market(s, side, quantity) ==
    Emit([s EXCEPT !.order_factory = @ + 1], "order", side, quantity)

\* The market order that flattens the position: get_flatten_side raises on a
\* FLAT market position.
FlattenOrder(s, cl_pos_id) ==
    IF market_position(s, cl_pos_id) = "FLAT" THEN Raise(s, "ValueError")
    ELSE order_factory_market(s, get_flatten_side(market_position(s, cl_pos_id)),
                              s.database.quantity[cl_pos_id])

\* database.get_positions_open(self.id)
get_positions_open(s) == {p \in Positions : s.database.positions[p] = "open"}

\* The loop of cancel_all_orders over the working orders.
RECURSIVE CancelEach(_, _)
CancelEach(s, orders) ==
    IF orders = <<>> THEN s
    ELSE CancelEach(Emit(s, "command", "CancelOrder", Head(orders)), Tail(orders))

cancel_all_orders(s) ==
    LET s1 == RequireExecEngine(s)
    IN IF s1.raised # "none" THEN s1
       ELSE CancelEach(s1, Ascending(s1.database.orders_working))

\* The loop of flatten_all_positions over the open positions: a market order
\* from the order factory and a submit_order for each.
RECURSIVE FlattenEach(_, _)
FlattenEach(s, positions) ==
    IF positions = <<>> \/ s.raised # "none" THEN s
    ELSE LET s1 == FlattenOrder(s, Head(positions))
         IN FlattenEach(IF s1.raised # "none" THEN s1 ELSE submit_order(s1, Head(positions)),
                        Tail(positions))

flatten_all_positions(s) ==
    LET s1 == RequireExecEngine(s)
    IN IF s1.raised # "none" THEN s1
       ELSE FlattenEach(s1, Ascending(get_positions_open(s1)))

\* flatten_position without the guard of the flattening set.
flatten_position_unguarded(s, cl_pos_id) ==
    LET s1 == RequireExecEngine(s)
    IN IF s1.raised # "none" THEN s1
       ELSE IF s1.database.positions[cl_pos_id] = "none"
            THEN Emit(s1, "log", "position_not_found", cl_pos_id)
       ELSE IF s1.database.positions[cl_pos_id] = "closed"
            THEN Emit(s1, "log", "position_closed", cl_pos_id)
       ELSE LET s2 == FlattenOrder(s1, cl_pos_id)
                s3 == [s2 EXCEPT !._flattening_ids = @ \cup {cl_pos_id}]
            IN IF s2.raised # "none" THEN s2 ELSE submit_order(s3, cl_pos_id)

flatten_position(s, cl_pos_id) ==
    LET s1 == RequireExecEngine(s)
    IN IF s1.raised # "none" THEN s1
       ELSE IF cl_pos_id \in s1._flattening_ids
            THEN Emit(s1, "log", "already_flattening", cl_pos_id)
       ELSE IF s1.database.positions[cl_pos_id] = "none"
            THEN Emit(s1, "log", "position_not_found", cl_pos_id)
       ELSE IF s1.database.positions[cl_pos_id] = "closed"
            THEN Emit(s1, "log", "position_closed", cl_pos_id)
       ELSE LET s2 == FlattenOrder(s1, cl_pos_id)
                s3 == [s2 EXCEPT !._flattening_ids = @ \cup {cl_pos_id}]
            IN IF s2.raised # "none" THEN s2 ELSE submit_order(s3, cl_pos_id)

\* An empty dict.
EmptyDict == [k \in {} |-> <<>>]

\* ---- lifecycle ------------------------------------------------------------
\* clock.cancel_all_timers()
cancel_all_timers(s) == Emit([s EXCEPT !.clock = {}], "clock", "cancel_all_timers", None)

\* stop() without the return that follows the logging of an invalid trigger.
stop_continuing(s, raising) ==
    LET s0 == fsm_trigger(s, "STOP")
        s1 == cancel_all_timers(IF s0.raised # "none" THEN log_exception(s0) ELSE s0)
        s2 == IF s1.flatten_on_stop THEN flatten_all_positions(s1) ELSE s1
        s3 == IF s2.cancel_all_orders_on_stop THEN cancel_all_orders(s2) ELSE s2
        s4 == Callback(s3, "on_stop", raising)
        s5 == IF s4.raised # "none" THEN log_exception(s4) ELSE s4
    IN IF s2.raised # "none" THEN s2
       ELSE IF s3.raised # "none" THEN s3
       ELSE fsm_trigger(s5, "STOPPED")

stop(s, raising) ==
    LET s0 == fsm_trigger(s, "STOP")
        s1 == cancel_all_timers(s0)
        s2 == IF s1.flatten_on_stop THEN flatten_all_positions(s1) ELSE s1
        s3 == IF s2.cancel_all_orders_on_stop THEN cancel_all_orders(s2) ELSE s2
        s4 == Callback(s3, "on_stop", raising)
        s5 == IF s4.raised # "none" THEN log_exception(s4) ELSE s4
    IN IF s0.raised = "InvalidStateTrigger" THEN log_exception(s0)
       ELSE IF s2.raised # "none" THEN s2
       ELSE IF s3.raised # "none" THEN s3
       ELSE fsm_trigger(s5, "STOPPED")

\* start() without the check that the execution engine is registered.
start_unchecked(s, raising) ==
    LET s0 == fsm_trigger(s, "START")
        s1 == Callback(s0, "on_start", raising)
    IN IF s0.raised = "InvalidStateTrigger" THEN stop(log_exception(s0), raising)
       ELSE IF ~s0._data_engine THEN Emit(s0, "log", "error", None)
       ELSE IF s1.raised # "none" THEN stop(log_exception(s1), raising)
       ELSE fsm_trigger(s1, "RUNNING")

\* start() without the return that follows the forced stop on an invalid
\* trigger: it goes on to on_start.
start_continuing(s, raising) ==
    LET s0 == fsm_trigger(s, "START")
        s1 == IF s0.raised = "InvalidStateTrigger"
              THEN stop(log_exception(s0), raising) ELSE s0
        s2 == Callback(s1, "on_start", raising)
    IN IF s1.raised # "none" THEN s1
       ELSE IF ~s1._data_engine THEN Emit(s1, "log", "error", None)
       ELSE IF ~s1._exec_engine THEN Emit(s1, "log", "error", None)
       ELSE IF s2.raised # "none" THEN stop(log_exception(s2), raising)
       ELSE fsm_trigger(s2, "RUNNING")

start(s, raising) ==
    LET s0 == fsm_trigger(s, "START")
        s1 == Callback(s0, "on_start", raising)
    IN IF s0.raised = "InvalidStateTrigger" THEN stop(log_exception(s0), raising)
       ELSE IF ~s0._data_engine THEN Emit(s0, "log", "error", None)
       ELSE IF ~s0._exec_engine THEN Emit(s0, "log", "error", None)
       ELSE IF s1.raised # "none" THEN stop(log_exception(s1), raising)
       ELSE fsm_trigger(s1, "RUNNING")

\* resume() that logs the exception of on_resume and raises it again when
\* reraise_exceptions is set.
resume_reraising(s, raising) ==
    LET s0 == fsm_trigger(s, "RESUME")
        s1 == Callback(s0, "on_resume", raising)
    IN IF s0.raised = "InvalidStateTrigger" THEN stop(log_exception(s0), raising)
       ELSE IF s1.raised # "none"
            THEN IF s1.reraise_exceptions
                 THEN Emit(s1, "log", "exception", None)
                 ELSE stop(log_exception(s1), raising)
       ELSE fsm_trigger(s1, "RUNNING")

resume(s, raising) ==
    LET s0 == fsm_trigger(s, "RESUME")
        s1 == Callback(s0, "on_resume", raising)
    IN IF s0.raised = "InvalidStateTrigger" THEN stop(log_exception(s0), raising)
       ELSE IF s1.raised # "none" THEN stop(log_exception(s1), raising)
       ELSE fsm_trigger(s1, "RUNNING")

\* The assignments of reset() that clear the session state.
ClearSession(s) ==
    [s EXCEPT !.order_factory = 0,
              !.position_id_generator = 0,
              !._flattening_ids = {},
              !._stop_loss_ids = {},
              !._take_profit_ids = {},
              !._indicators = <<>>,
              !._indicators_for_quotes = EmptyDict,
              !._indicators_for_trades = EmptyDict,
              !._indicators_for_bars = EmptyDict]

\* reset() that forgets the take-profit ids.
reset_keeping_take_profit(s, raising) ==
    LET s0 == fsm_trigger(s, "RESET")
        s1 == [ClearSession(s0) EXCEPT !._take_profit_ids = s0._take_profit_ids]
        s2 == Callback(s1, "on_reset", raising)
        s3 == IF s2.raised # "none" THEN log_exception(s2) ELSE s2
    IN IF s0.raised = "InvalidStateTrigger" THEN log_exception(s0)
       ELSE fsm_trigger(s3, "RESET")

reset(s, raising) ==
    LET s0 == fsm_trigger(s, "RESET")
        s1 == ClearSession(s0)
        s2 == Callback(s1, "on_reset", raising)
        s3 == IF s2.raised # "none" THEN log_exception(s2) ELSE s2
    IN IF s0.raised = "InvalidStateTrigger" THEN log_exception(s0)
       ELSE fsm_trigger(s3, "RESET")

dispose(s, raising) ==
    LET s0 == fsm_trigger(s, "DISPOSE")
        s1 == Callback(s0, "on_dispose", raising)
        s2 == IF s1.raised # "none" THEN log_exception(s1) ELSE s1
    IN IF s0.raised = "InvalidStateTrigger" THEN log_exception(s0)
       ELSE fsm_trigger(s2, "DISPOSED")

\* ---- save and load --------------------------------------------------------
\* {**state, **user_state}
Merged(state, user_state) ==
    [k \in DOMAIN state \cup DOMAIN user_state |->
        IF k \in DOMAIN user_state THEN user_state[k] ELSE state[k]]

\* The reserved part of the saved state.
ReservedState(s) ==
    [k \in {"OrderIdCount", "PositionIdCount"} |->
        IF k = "OrderIdCount" THEN s.order_factory ELSE s.position_id_generator]

\* save(): on_save returns user_state or raises; when it raises the exception
\* is logged and user_state is left unbound for the return statement.
save(s, user_state, raising) ==
    LET s1 == Callback(s, "on_save", raising)
    IN IF s1.raised = "none"
       THEN [s1 EXCEPT !.result = <<Merged(ReservedState(s), user_state)>>]
       ELSE Raise(log_exception(s1), "UnboundLocalError")

\* A value read from the store: the bytes of a decimal number.
Bytes(n) == [bytes |-> n]

\* int(value.decode("utf8"))
DecodeInt(value) == value.bytes

\* The bytes keys load looks up.
OrderIdCountKey == "b'OrderIdCount'"

PositionIdCountKey == "b'PositionIdCount'"

\* state.get(b'OrderIdCount') and order_factory.set_count
load_order_id_count(s, state) ==
    IF OrderIdCountKey \in DOMAIN state
    THEN Emit([s EXCEPT !.order_factory = DecodeInt(state[OrderIdCountKey])],
              "log", "order_id_count", DecodeInt(state[OrderIdCountKey]))
    ELSE s

\* state.get(b'PositionIdCount') and position_id_generator.set_count
load_position_id_count(s, state) ==
    IF PositionIdCountKey \in DOMAIN state
    THEN Emit([s EXCEPT !.position_id_generator = DecodeInt(state[PositionIdCountKey])],
              "log", "position_id_count", DecodeInt(state[PositionIdCountKey]))
    ELSE s

\* load(state): Condition.not_empty(state), the two counts, then on_load
\* inside try/except.
load(s, state, raising) ==
    LET s1 == Callback(load_position_id_count(load_order_id_count(s, state), state),
                       "on_load", raising)
    IN IF DOMAIN state = {} THEN Raise(s, "ValueError")
       ELSE IF s1.raised = "none" THEN s1
       ELSE log_exception(s1)

\* ---- registration ---------------------------------------------------------
register_data_engine(s) == [s EXCEPT !._data_engine = TRUE]

register_execution_engine(s) == [s EXCEPT !._exec_engine = TRUE]

InList(x, list) == \E k \in 1..Len(list) : list[k] = x

\* dict.get(key): the list stored under key, or <<>> for None.
DictGet(dict, key) == IF key \in DOMAIN dict THEN dict[key] ELSE <<>>

\* The dict with `indicator` appended to the list under key, the list being
\* created when the key is new; unchanged when the indicator is in the list.
DictRegister(dict, key, indicator) ==
    [k \in DOMAIN dict \cup {key} |->
        IF k = key /\ ~InList(indicator, DictGet(dict, key))
        THEN Append(DictGet(dict, key), indicator)
        ELSE DictGet(dict, k)]

\* The part common to the three register_indicator_for_* methods: the
\* indicator joins self._indicators unless it is already there.
RegisterIndicator(s, indicator) ==
    IF InList(indicator, s._indicators) THEN s
    ELSE [s EXCEPT !._indicators = Append(@, indicator)]

LogIfRegistered(s, dict, key, indicator) ==
    IF InList(indicator, DictGet(dict, key))
    THEN Emit(s, "log", "error", indicator) ELSE s

register_indicator_for_quote_ticks(s, symbol, indicator) ==
    LET s1 == RegisterIndicator(s, indicator)
        s2 == [s1 EXCEPT !._indicators_for_quotes = DictRegister(@, symbol, indicator)]
    IN LogIfRegistered(s2, s._indicators_for_quotes, symbol, indicator)

register_indicator_for_trade_ticks(s, symbol, indicator) ==
    LET s1 == RegisterIndicator(s, indicator)
        s2 == [s1 EXCEPT !._indicators_for_trades = DictRegister(@, symbol, indicator)]
    IN LogIfRegistered(s2, s._indicators_for_trades, symbol, indicator)

register_indicator_for_bars(s, bar_type, indicator) ==
    LET s1 == RegisterIndicator(s, indicator)
        s2 == [s1 EXCEPT !._indicators_for_bars = DictRegister(@, bar_type, indicator)]
    IN LogIfRegistered(s2, s._indicators_for_bars, bar_type, indicator)

\* An exception raised inside a `cpdef void` method declared without an
\* `except` clause. What becomes of it depends on the Cython that compiles
\* the module: the code generated by Cython 0.29 and the 3.0 alphas cannot
\* return an error from a void function, writes the exception to stderr
\* (PyErr_WriteUnraisable) and returns normally; Cython 3 propagates it.
WriteUnraisable(s, exception, id, propagates) ==
    IF propagates THEN Raise(s, exception)
    ELSE Emit(s, "log", "unraisable", id)

\* register_stop_loss and register_take_profit are declared without an
\* `except` clause: Condition.not_in raises inside them.
register_stop_loss(s, order, propagates) ==
    IF order \in s._stop_loss_ids THEN WriteUnraisable(s, "ValueError", order, propagates)
    ELSE [s EXCEPT !._stop_loss_ids = @ \cup {order}]

register_take_profit(s, order, propagates) ==
    IF order \in s._take_profit_ids THEN WriteUnraisable(s, "ValueError", order, propagates)
    ELSE [s EXCEPT !._take_profit_ids = @ \cup {order}]

\* submit_bracket_order(bracket_order, cl_pos_id, register): with register
\* the stop-loss of the bracket order and, when it has one, its take-profit
\* are registered before the one SubmitBracketOrder command is passed to the
\* execution engine; an exception of a registration that propagates ends the
\* call where it is raised.
submit_bracket_order(s, bracket_order, cl_pos_id, register, propagates) ==
    LET s1 == RequireExecEngine(s)
        s2 == IF register
              THEN register_stop_loss(s1, bracket_order.stop_loss, propagates)
              ELSE s1
        s3 == IF register /\ bracket_order.has_take_profit
              THEN register_take_profit(s2, bracket_order.take_profit, propagates)
              ELSE s2
    IN IF s1.raised # "none" THEN s1
       ELSE IF s2.raised # "none" THEN s2
       ELSE IF s3.raised # "none" THEN s3
       ELSE Emit(s3, "command", "SubmitBracketOrder", cl_pos_id)

\* ---- handlers -------------------------------------------------------------
\* The loop "for indicator in indicators: indicator.handle_*(item)".
RECURSIVE UpdateEach(_, _, _, _)
UpdateEach(s, indicators, method, item) ==
    IF indicators = <<>> THEN s
    ELSE LET i == Head(indicators)
             s1 == [s EXCEPT !.indicator_inputs[i] = item]
         IN UpdateEach(Emit(s1, "indicator", method, i), Tail(indicators), method, item)

\* The block "if RUNNING: try: self.on_*(...) except: log; re-raise if
\* reraise_exceptions" that ends every handler.
\* The same block with the exception always swallowed after logging.
CallbackIfRunning_swallowing(s, name, raising) ==
    LET s1 == Callback(s, name, raising)
        s2 == log_exception(s1)
    IN IF s._fsm # "RUNNING" THEN s
       ELSE IF s1.raised = "none" THEN s1
       ELSE s2

CallbackIfRunning(s, name, raising) ==
    LET s1 == Callback(s, name, raising)
        s2 == log_exception(s1)
    IN IF s._fsm # "RUNNING" THEN s
       ELSE IF s1.raised = "none" THEN s1
       ELSE IF s.reraise_exceptions THEN Raise(s2, "Exception")
       ELSE s2

handle_quote_tick(s, tick, is_historical, raising) ==
    LET s1 == UpdateEach(s, DictGet(s._indicators_for_quotes, tick.symbol),
                         "handle_quote_tick", tick.id)
    IN IF is_historical THEN s1
       ELSE CallbackIfRunning(s1, "on_quote_tick", raising)

\* handle_trade_tick returning for historical ticks before the indicators
\* are updated.
handle_trade_tick_skipping(s, tick, is_historical, raising) ==
    LET s1 == UpdateEach(s, DictGet(s._indicators_for_trades, tick.symbol),
                         "handle_trade_tick", tick.id)
    IN IF is_historical THEN s
       ELSE CallbackIfRunning(s1, "on_trade_tick", raising)

handle_trade_tick(s, tick, is_historical, raising) ==
    LET s1 == UpdateEach(s, DictGet(s._indicators_for_trades, tick.symbol),
                         "handle_trade_tick", tick.id)
    IN IF is_historical THEN s1
       ELSE CallbackIfRunning(s1, "on_trade_tick", raising)

handle_bar(s, bar_type, bar, is_historical, raising) ==
    LET s1 == UpdateEach(s, DictGet(s._indicators_for_bars, bar_type),
                         "handle_bar", bar)
    IN IF is_historical THEN s1
       ELSE CallbackIfRunning(s1, "on_bar", raising)

\* The loop of handle_bars: handle_bar(bar_type, bars[i], is_historical=True).
RECURSIVE HandleEachBar(_, _, _)
HandleEachBar(s, bar_type, bars) ==
    IF bars = <<>> \/ s.raised # "none" THEN s
    ELSE HandleEachBar(handle_bar(s, bar_type, Head(bars), TRUE, {}), bar_type, Tail(bars))

\* A bar is identified by its timestamp.
handle_bars(s, bar_type, bars) ==
    IF Len(bars) > 0 /\ bars[1] > bars[Len(bars)] THEN Raise(s, "RuntimeError")
    ELSE HandleEachBar(s, bar_type, bars)

\* The loops of handle_quote_ticks and handle_trade_ticks:
\* handle_*_tick(ticks[i], is_historical=True).
RECURSIVE HandleEachQuoteTick(_, _)
HandleEachQuoteTick(s, ticks) ==
    IF ticks = <<>> \/ s.raised # "none" THEN s
    ELSE HandleEachQuoteTick(handle_quote_tick(s, Head(ticks), TRUE, {}), Tail(ticks))

RECURSIVE HandleEachTradeTick(_, _)
HandleEachTradeTick(s, ticks) ==
    IF ticks = <<>> \/ s.raised # "none" THEN s
    ELSE HandleEachTradeTick(handle_trade_tick(s, Head(ticks), TRUE, {}), Tail(ticks))

\* The log line of a tick list: info with the length, or the warning of an
\* empty list.
LogReceived(s, length) ==
    IF length > 0 THEN Emit(s, "log", "received", length)
    ELSE Emit(s, "log", "no_ticks", length)

handle_quote_ticks(s, ticks) == HandleEachQuoteTick(LogReceived(s, Len(ticks)), ticks)

\* handle_trade_ticks that handles the list from its last tick to its first.
RECURSIVE Reversed(_)
Reversed(seq) == IF seq = <<>> THEN <<>> ELSE Append(Reversed(Tail(seq)), Head(seq))

handle_trade_ticks_reversed(s, ticks) ==
    HandleEachTradeTick(LogReceived(s, Len(ticks)), Reversed(ticks))

handle_trade_ticks(s, ticks) == HandleEachTradeTick(LogReceived(s, Len(ticks)), ticks)

handle_data(s, raising) == CallbackIfRunning(s, "on_data", raising)

\* The event classes handle_event tells apart, and two it does not.
EventTypes ==
    {"OrderInvalid", "OrderDenied", "OrderRejected", "OrderCancelled",
     "OrderExpired", "OrderFilled", "OrderCancelReject", "OrderWorking",
     "PositionOpened", "PositionClosed"}

_ORDER_COMPLETION_TRIGGERS ==
    {"OrderInvalid", "OrderDenied", "OrderRejected", "OrderCancelled",
     "OrderExpired", "OrderFilled"}

PositionEventTypes == {"PositionOpened", "PositionClosed"}

\* _flatten_on_reject looking at the stop-loss set only.
_flatten_on_reject_stop_loss_only(s, event) ==
    LET position_id == s.database.position_ids[event.id]
    IN IF event.id \notin s._stop_loss_ids
       THEN s
       ELSE IF ~s._exec_engine THEN Raise(s, "AttributeError")
       ELSE IF position_id = None THEN Emit(s, "log", "position_id_not_found", event.id)
       ELSE IF s.database.positions[position_id] = "open"
            THEN flatten_position(Emit(s, "log", "now_flattening", position_id), position_id)
       ELSE s

\* The log record "now flattening {position_id}" is written right before the
\* call of flatten_position.
_flatten_on_reject(s, event) ==
    LET position_id == s.database.position_ids[event.id]
    IN IF event.id \notin s._stop_loss_ids /\ event.id \notin s._take_profit_ids
       THEN s
       ELSE IF ~s._exec_engine THEN Raise(s, "AttributeError")
       ELSE IF position_id = None THEN Emit(s, "log", "position_id_not_found", event.id)
       ELSE IF s.database.positions[position_id] = "open"
            THEN flatten_position(Emit(s, "log", "now_flattening", position_id), position_id)
       ELSE s

\* handle_event that releases only the stop-loss registration.
handle_event_keeping_take_profit(s, event, raising) ==
    LET s1 == IF event.type = "OrderRejected"
              THEN IF s.flatten_on_reject THEN _flatten_on_reject(s, event) ELSE s
              ELSE IF event.type = "PositionClosed"
              THEN [s EXCEPT !._flattening_ids = @ \ {event.id}]
              ELSE s
        s2 == IF event.type \in _ORDER_COMPLETION_TRIGGERS
              THEN [s1 EXCEPT !._stop_loss_ids = @ \ {event.id}]
              ELSE s1
    IN IF s1.raised # "none" THEN s1
       ELSE CallbackIfRunning(s2, "on_event", raising)

\* handle_event that leaves the flattening set alone on PositionClosed.
handle_event_keeping_flattening(s, event, raising) ==
    LET s1 == IF event.type = "OrderRejected"
              THEN IF s.flatten_on_reject THEN _flatten_on_reject(s, event) ELSE s
              ELSE s
        s2 == IF event.type \in _ORDER_COMPLETION_TRIGGERS
              THEN [s1 EXCEPT !._stop_loss_ids = @ \ {event.id},
                              !._take_profit_ids = @ \ {event.id}]
              ELSE s1
    IN IF s1.raised # "none" THEN s1
       ELSE CallbackIfRunning(s2, "on_event", raising)

handle_event(s, event, raising) ==
    LET s1 == IF event.type = "OrderRejected"
              THEN IF s.flatten_on_reject THEN _flatten_on_reject(s, event) ELSE s
              ELSE IF event.type = "PositionClosed"
              THEN [s EXCEPT !._flattening_ids = @ \ {event.id}]
              ELSE s
        s2 == IF event.type \in _ORDER_COMPLETION_TRIGGERS
              THEN [s1 EXCEPT !._stop_loss_ids = @ \ {event.id},
                              !._take_profit_ids = @ \ {event.id}]
              ELSE s1
    IN IF s1.raised # "none" THEN s1
       ELSE CallbackIfRunning(s2, "on_event", raising)

\* ---- the execution engine and the clock ---------------------------------
\* The execution engine records an event in its database before it passes
\* the event to the strategy.
database_update(s, event) ==
    CASE event.type = "PositionOpened" ->
            [s EXCEPT !.database.positions[event.id] = "open"]
      [] event.type = "PositionClosed" ->
            [s EXCEPT !.database.positions[event.id] = "closed",
                      !.database.positions_flattening = @ \ {event.id}]
      [] event.type = "OrderWorking" ->
            [s EXCEPT !.database.orders_working = @ \cup {event.id}]
      [] event.type \in _ORDER_COMPLETION_TRIGGERS ->
            [s EXCEPT !.database.orders_working = @ \ {event.id}]
      [] OTHER -> s

\* The events the execution engine can generate from the database's state;
\* it passes them to the strategies it has been registered with.
EventPossible(s, event) ==
    s._exec_engine /\
    CASE event.type = "PositionOpened" ->
            event.id \in Positions /\ s.database.positions[event.id] = "none"
      [] event.type = "PositionClosed" ->
            event.id \in Positions /\ s.database.positions[event.id] = "open"
      [] OTHER -> event.id \in Orders

set_timer(s, name) == [s EXCEPT !.clock = @ \cup {name}]

position_id_generator_generate(s) == [s EXCEPT !.position_id_generator = @ + 1]

\* ---- the account -----------------------------------------------------------
AccountIds == {"SIM-001", "SIM-002"}

Currencies == {"USD", "AUD"}

\* base_currency = None: a multi-currency account.
NoCurrency == "None"

\* AccountBalance(currency, total, locked, free), with free = total - locked.
AccountBalance(currency, total, locked) ==
    [currency |-> currency, total |-> total, locked |-> locked, free |-> total - locked]

AccountBalances ==
    {AccountBalance("USD", 1, 0), AccountBalance("USD", 2, 1), AccountBalance("AUD", 1, 0)}

\* The balance lists of an event: none, one or two entries.
BalanceLists ==
    {<<>>} \cup {<<b>> : b \in AccountBalances}
           \cup {<<a, b>> : a \in AccountBalances, b \in AccountBalances}

\* AccountState events.
AccountStates ==
    [account_id : AccountIds,
     base_currency : {NoCurrency, "USD"},
     balances : BalanceLists]

\* dict[key] = value
DictSet(dict, key, value) ==
    [k \in DOMAIN dict \cup {key} |-> IF k = key THEN value ELSE dict[k]]

\* The outcome of a method of the account: the account, the exception and
\* the returned value (<<>> for None, <<v>> for a value v).
Answer(a, result, exception) == [account |-> a, raised |-> exception, result |-> result]

Outcome(a, exception) == Answer(a, <<>>, exception)

\* The loop of update_balances: self._balances[balance.currency] = balance
RECURSIVE UpdateEachBalance(_, _)
UpdateEachBalance(a, balances) ==
    IF balances = <<>> THEN a
    ELSE UpdateEachBalance(
             [a EXCEPT !._balances = DictSet(@, Head(balances).currency, Head(balances))],
             Tail(balances))

\* update_balances that keeps the balance a currency already has.
update_balances_keeping(a, balances) ==
    IF balances = <<>> THEN Outcome(a, "ValueError")
    ELSE Outcome([a EXCEPT !._balances =
                     [c \in DOMAIN UpdateEachBalance(a, balances)._balances |->
                         IF c \in DOMAIN a._balances THEN a._balances[c]
                         ELSE UpdateEachBalance(a, balances)._balances[c]]], "none")

\* update_balances that starts from an empty mapping: the balances become
\* the entries of the list and nothing else.
update_balances_replacing(a, balances) ==
    IF balances = <<>> THEN Outcome(a, "ValueError")
    ELSE Outcome(UpdateEachBalance([a EXCEPT !._balances = EmptyDict], balances), "none")

update_balances(a, balances) ==
    IF balances = <<>> THEN Outcome(a, "ValueError")
    ELSE Outcome(UpdateEachBalance(a, balances), "none")

\* {b.currency: b.total for b in balances}
StartingBalances(balances) ==
    [c \in {balances[k].currency : k \in 1..Len(balances)} |->
        UpdateEachBalance([_balances |-> EmptyDict], balances)._balances[c].total]

\* Account(event, calculate_account_state): the constructor does not raise
\* for an event that carries a balance.
Account(event) ==
    update_balances(
        [id |-> event.account_id,
         base_currency |-> event.base_currency,
         _starting_balances |-> StartingBalances(event.balances),
         _events |-> <<event>>,
         _balances |-> EmptyDict,
         _commissions |-> EmptyDict],
        event.balances).account

\* apply without the check of the event's base currency.
apply_unchecked_base(a, event) ==
    IF event.account_id # a.id THEN Outcome(a, "ValueError")
    ELSE IF a.base_currency # NoCurrency /\ Len(event.balances) # 1
         THEN Outcome(a, "ValueError")
    ELSE IF a.base_currency # NoCurrency /\ event.balances[1].currency # a.base_currency
         THEN Outcome(a, "ValueError")
    ELSE update_balances([a EXCEPT !._events = Append(@, event)], event.balances)

apply(a, event) ==
    IF event.account_id # a.id THEN Outcome(a, "ValueError")
    ELSE IF event.base_currency # a.base_currency THEN Outcome(a, "ValueError")
    ELSE IF a.base_currency # NoCurrency /\ Len(event.balances) # 1
         THEN Outcome(a, "ValueError")
    ELSE IF a.base_currency # NoCurrency /\ event.balances[1].currency # a.base_currency
         THEN Outcome(a, "ValueError")
    ELSE update_balances([a EXCEPT !._events = Append(@, event)], event.balances)

\* update_commissions without the early return for a zero commission.
update_commissions_always(a, currency, amount) ==
    Outcome([a EXCEPT !._commissions =
                DictSet(@, currency,
                        (IF currency \in DOMAIN @ THEN @[currency] ELSE 0) + amount)],
            "none")

\* update_commissions(commission) for a commission of `amount` in `currency`.
update_commissions(a, currency, amount) ==
    IF amount = 0 THEN Outcome(a, "none")
    ELSE Outcome([a EXCEPT !._commissions =
                     DictSet(@, currency,
                             (IF currency \in DOMAIN @ THEN @[currency] ELSE 0) + amount)],
                 "none")

\* The currency of a query: the given one, or the base currency of the
\* account when none is given.
QueryCurrency(a, currency) == IF currency = NoCurrency THEN a.base_currency ELSE currency

\* self._balances.get(currency)
BalanceGet(a, currency) ==
    IF currency \in DOMAIN a._balances THEN <<a._balances[currency]>> ELSE <<>>

balance(a, currency) ==
    IF QueryCurrency(a, currency) = NoCurrency THEN Outcome(a, "ValueError")
    ELSE Answer(a, BalanceGet(a, QueryCurrency(a, currency)), "none")

\* balance_total that answers a zero amount for a currency without balance.
balance_total_or_zero(a, currency) ==
    IF QueryCurrency(a, currency) = NoCurrency THEN Outcome(a, "ValueError")
    ELSE IF BalanceGet(a, QueryCurrency(a, currency)) = <<>> THEN Answer(a, <<0>>, "none")
    ELSE Answer(a, <<BalanceGet(a, QueryCurrency(a, currency))[1].total>>, "none")

balance_total(a, currency) ==
    IF QueryCurrency(a, currency) = NoCurrency THEN Outcome(a, "ValueError")
    ELSE IF BalanceGet(a, QueryCurrency(a, currency)) = <<>> THEN Answer(a, <<>>, "none")
    ELSE Answer(a, <<BalanceGet(a, QueryCurrency(a, currency))[1].total>>, "none")

balance_free(a, currency) ==
    IF QueryCurrency(a, currency) = NoCurrency THEN Outcome(a, "ValueError")
    ELSE IF BalanceGet(a, QueryCurrency(a, currency)) = <<>> THEN Answer(a, <<>>, "none")
    ELSE Answer(a, <<BalanceGet(a, QueryCurrency(a, currency))[1].free>>, "none")

balance_locked(a, currency) ==
    IF QueryCurrency(a, currency) = NoCurrency THEN Outcome(a, "ValueError")
    ELSE IF BalanceGet(a, QueryCurrency(a, currency)) = <<>> THEN Answer(a, <<>>, "none")
    ELSE Answer(a, <<BalanceGet(a, QueryCurrency(a, currency))[1].locked>>, "none")

\* starting_balances that reports the totals the account holds now.
starting_balances_current(a) ==
    Answer(a, <<[c \in DOMAIN a._balances |-> a._balances[c].total]>>, "none")

\* self._starting_balances.copy()
starting_balances(a) == Answer(a, <<a._starting_balances>>, "none")


\* ---- the order -------------------------------------------------------------
\* The OrderEvent variants.
OrderEventTypes ==
    {"OrderInitialized", "OrderDenied", "OrderSubmitted", "OrderAccepted",
     "OrderRejected", "OrderCanceled", "OrderExpired", "OrderTriggered",
     "OrderPendingUpdate", "OrderPendingCancel", "OrderUpdateRejected",
     "OrderCancelRejected", "OrderUpdated", "OrderFilled"}

\* An order event: its class and, for OrderFilled, the quantity of the fill.
OrderEvents == [type : OrderEventTypes, last_qty : Quantities]

OrderStatuses ==
    {"INITIALIZED", "SUBMITTED", "ACCEPTED", "PENDING_UPDATE", "PENDING_CANCEL",
     "TRIGGERED", "PARTIALLY_FILLED", "FILLED", "CANCELED", "EXPIRED",
     "REJECTED", "DENIED"}

TerminalStatuses == {"FILLED", "CANCELED", "EXPIRED", "REJECTED", "DENIED"}

\* The statuses an order is working at the venue in.
WorkingStatuses ==
    {"ACCEPTED", "PENDING_UPDATE", "PENDING_CANCEL", "TRIGGERED", "PARTIALLY_FILLED"}

\* The legal source statuses of each event class. OrderInitialized creates
\* the order and is legal for no existing order.
OrderSourceStatuses(type) ==
    CASE type = "OrderDenied" -> {"INITIALIZED"}
      [] type = "OrderSubmitted" -> {"INITIALIZED"}
      [] type = "OrderAccepted" -> {"SUBMITTED"}
      [] type = "OrderRejected" -> {"SUBMITTED"}
      [] type = "OrderCanceled" -> WorkingStatuses \cup {"SUBMITTED"}
      [] type = "OrderExpired" -> WorkingStatuses
      [] type = "OrderTriggered" -> {"ACCEPTED", "PENDING_UPDATE", "PENDING_CANCEL"}
      [] type = "OrderPendingUpdate" -> {"ACCEPTED", "TRIGGERED", "PARTIALLY_FILLED"}
      [] type = "OrderPendingCancel" ->
             {"ACCEPTED", "PENDING_UPDATE", "TRIGGERED", "PARTIALLY_FILLED"}
      [] type = "OrderUpdateRejected" -> {"PENDING_UPDATE"}
      [] type = "OrderUpdated" -> {"PENDING_UPDATE"}
      [] type = "OrderCancelRejected" -> {"PENDING_CANCEL"}
      [] type = "OrderFilled" -> WorkingStatuses \cup {"SUBMITTED"}
      [] OTHER -> {}

\* The target status of a legal event: the rejection of an update or of a
\* cancel (the transient UpdateRejected and CancelRejected) and an update
\* return the order to the status it was pending from; a fill that leaves
\* quantity open leads to PARTIALLY_FILLED.
OrderTargetStatus(o, event) ==
    CASE event.type = "OrderDenied" -> "DENIED"
      [] event.type = "OrderSubmitted" -> "SUBMITTED"
      [] event.type = "OrderAccepted" -> "ACCEPTED"
      [] event.type = "OrderRejected" -> "REJECTED"
      [] event.type = "OrderCanceled" -> "CANCELED"
      [] event.type = "OrderExpired" -> "EXPIRED"
      [] event.type = "OrderTriggered" -> "TRIGGERED"
      [] event.type = "OrderPendingUpdate" -> "PENDING_UPDATE"
      [] event.type = "OrderPendingCancel" -> "PENDING_CANCEL"
      [] event.type \in {"OrderUpdateRejected", "OrderUpdated", "OrderCancelRejected"} ->
             o.previous_status
      [] event.type = "OrderFilled" ->
             IF o.filled_qty + event.last_qty < o.quantity
             THEN "PARTIALLY_FILLED" ELSE "FILLED"
      [] OTHER -> o.status

\* The order created by OrderInitialized for the given quantity.
Order(quantity) ==
    [status |-> "INITIALIZED", previous_status |-> "INITIALIZED",
     quantity |-> quantity, filled_qty |-> 0, events |-> <<"OrderInitialized">>]

\* The outcome of a method of the order.
OrderOutcome(o, exception) == [order |-> o, raised |-> exception]

\* Order.apply that lets a fill through in every status.
Order_apply_filling(o, event) ==
    IF o.status \notin OrderSourceStatuses(event.type) /\ event.type # "OrderFilled"
    THEN OrderOutcome(o, "InvalidStateTransition")
    ELSE OrderOutcome(
             [o EXCEPT !.status = OrderTargetStatus(o, event),
                       !.previous_status =
                           IF event.type \in {"OrderPendingUpdate", "OrderPendingCancel"}
                           THEN o.status ELSE @,
                       !.filled_qty =
                           IF event.type = "OrderFilled" THEN @ + event.last_qty ELSE @,
                       !.events = Append(@, event.type)],
             "none")

\* Order.apply(event): the FSM rejects an event whose class is not legal in
\* the current status before anything of the order is changed; a legal event
\* moves the status, adds a fill to the filled quantity and joins the list
\* of applied events.
Order_apply(o, event) ==
    IF o.status \notin OrderSourceStatuses(event.type)
    THEN OrderOutcome(o, "InvalidStateTransition")
    ELSE OrderOutcome(
             [o EXCEPT !.status = OrderTargetStatus(o, event),
                       !.previous_status =
                           IF event.type \in {"OrderPendingUpdate", "OrderPendingCancel"}
                           THEN o.status ELSE @,
                       !.filled_qty =
                           IF event.type = "OrderFilled" THEN @ + event.last_qty ELSE @,
                       !.events = Append(@, event.type)],
             "none")

\* ---- messages ---------------------------------------------------------------
\* MessageCategory: COMMAND, DOCUMENT, EVENT, REQUEST, RESPONSE.
MessageCategories == 1..5

UUIDs == {1, 2}

\* Messages: category, id and ts_init, and the fields of the subclass.
Messages ==
    [category : MessageCategories, id : UUIDs, ts_init : {0, 1}, payload : {"a", "b"}]

\* The size of the space hash() maps tuples into.
HashSpace == 8

\* hash((category, id)): a function of the tuple that is not injective.
hash(t) == (31 * t[1] + t[2]) % HashSpace

\* Message.__eq__ comparing the ids alone.
Message_eq_by_id(self, other) == self.id = other.id

\* Message.__eq__
Message_eq(self, other) == self.category = other.category /\ self.id = other.id

\* Message.__hash__
Message_hash(self) == hash(<<self.category, self.id>>)

\* ---- the data client --------------------------------------------------------
ClientIds == {"BINANCE", "BITMEX"}

\* self._msgbus.send(endpoint, msg)
msgbus_send(endpoint, msg) == <<Effect("send", endpoint, msg)>>

DataResponse(client_id, data_type, data, correlation_id, response_id) ==
    [client_id |-> client_id, data_type |-> data_type, data |-> data,
     correlation_id |-> correlation_id, response_id |-> response_id]

\* DataType(type, metadata)
DataType(type, metadata) == [type |-> type, metadata |-> metadata]

_handle_data(self, data) == msgbus_send("DataEngine.process", data)

_handle_data_response(self, data_type, data, correlation_id, response_id) ==
    msgbus_send("DataEngine.response",
                DataResponse(self, data_type, data, correlation_id, response_id))

\* _handle_quote_ticks that answers under the id of the response.
_handle_quote_ticks_uncorrelated(self, instrument_id, ticks, correlation_id, response_id) ==
    msgbus_send("DataEngine.response",
                DataResponse(self, DataType("QuoteTick", instrument_id), ticks,
                             response_id, response_id))

_handle_quote_ticks(self, instrument_id, ticks, correlation_id, response_id) ==
    msgbus_send("DataEngine.response",
                DataResponse(self, DataType("QuoteTick", instrument_id), ticks,
                             correlation_id, response_id))

_handle_trade_ticks(self, instrument_id, ticks, correlation_id, response_id) ==
    msgbus_send("DataEngine.response",
                DataResponse(self, DataType("TradeTick", instrument_id), ticks,
                             correlation_id, response_id))

_handle_bars(self, bar_type, bars, partial, correlation_id, response_id) ==
    msgbus_send("DataEngine.response",
                DataResponse(self, DataType("Bar", <<bar_type, partial>>), bars,
                             correlation_id, response_id))

\* ---- actions --------------------------------------------------------------
\* The state after a method of the account returned (or raised) outcome r.
ReturnAccount(name, args, r) ==
    /\ account' = r.account
    /\ call' = [name |-> name, args |-> args, from |-> _fsm,
                raised |-> r.raised, trace |-> <<>>, result |-> r.result]
    /\ UNCHANGED strategy_vars

\* One of `events` is applied to account a.
ApplyOf(a, events) ==
    \E event \in events :
        /\ Len(a._events) < MaxEvents
        /\ ReturnAccount("apply", Args("AccountState", event, FALSE), apply(a, event))

Apply == ApplyOf(account, AccountStates)

\* Events of one balance entry.
ApplyOne == ApplyOf(account, {event \in AccountStates : Len(event.balances) = 1})

\* A commission (amount > 0) or a rebate (amount < 0) in one of the
\* currencies; the running totals stay within MaxCount of zero.
UpdateCommissionsOf(a, currencies, amounts) ==
    \E currency \in currencies, amount \in amounts :
        /\ (currency \in DOMAIN a._commissions) =>
               /\ a._commissions[currency] + amount <= MaxCount
               /\ a._commissions[currency] + amount >= 0 - MaxCount
        /\ ReturnAccount("update_commissions", Args(currency, amount, FALSE),
                         update_commissions(a, currency, amount))

UpdateCommissions == UpdateCommissionsOf(account, {"USD"}, {0, 1})

UpdateAnyCommissions == UpdateCommissionsOf(account, Currencies, {0 - 1, 0, 1})

\* The balance queries, with a currency or without one.
Balance ==
    \E currency \in Currencies \cup {NoCurrency} :
        ReturnAccount("balance", Args("Currency", currency, FALSE),
                      balance(account, currency))

BalanceTotal ==
    \E currency \in Currencies \cup {NoCurrency} :
        ReturnAccount("balance_total", Args("Currency", currency, FALSE),
                      balance_total(account, currency))

BalanceFree ==
    \E currency \in Currencies \cup {NoCurrency} :
        ReturnAccount("balance_free", Args("Currency", currency, FALSE),
                      balance_free(account, currency))

BalanceLocked ==
    \E currency \in Currencies \cup {NoCurrency} :
        ReturnAccount("balance_locked", Args("Currency", currency, FALSE),
                      balance_locked(account, currency))

StartingBalancesOfAccount ==
    ReturnAccount("starting_balances", NoArgs, starting_balances(account))

Callbacks ==
    {"on_start", "on_stop", "on_resume", "on_reset", "on_dispose",
     "on_quote_tick", "on_trade_tick", "on_bar", "on_data", "on_event"}

RegisterDataEngine ==
    /\ ~_data_engine
    /\ Return("register_data_engine", NoArgs, register_data_engine(Self))

RegisterExecutionEngine ==
    /\ ~_exec_engine
    /\ Return("register_execution_engine", NoArgs, register_execution_engine(Self))

Start ==
    \E raising \in SUBSET {"on_start", "on_stop"} :
        Return("start", NoArgs, start(Self, raising))

Stop ==
    \E raising \in SUBSET {"on_stop"} :
        Return("stop", NoArgs, stop(Self, raising))

\* start() and reset() with the history recorded.
StartRecorded ==
    \E raising \in SUBSET {"on_start", "on_stop"} :
        LET s == start(Self, raising)
        IN Returned("start", NoArgs, s, Recorded(on_start_completed, s.trace))

ResetRecorded ==
    \E raising \in SUBSET {"on_reset"} :
        LET s == reset(Self, raising)
        IN Returned("reset", NoArgs, s, Recorded(on_start_completed, s.trace))

Resume ==
    \E raising \in SUBSET {"on_resume", "on_stop"} :
        Return("resume", NoArgs, resume(Self, raising))

Reset ==
    \E raising \in SUBSET {"on_reset"} :
        Return("reset", NoArgs, reset(Self, raising))

Dispose ==
    \E raising \in SUBSET {"on_dispose"} :
        Return("dispose", NoArgs, dispose(Self, raising))

\* The number of (key, indicator) registrations the strategy holds.
RECURSIVE SumLen(_, _)
SumLen(dict, keys) ==
    IF keys = {} THEN 0
    ELSE LET k == CHOOSE x \in keys : TRUE
         IN Len(dict[k]) + SumLen(dict, keys \ {k})

Registrations ==
    SumLen(_indicators_for_quotes, DOMAIN _indicators_for_quotes)
    + SumLen(_indicators_for_trades, DOMAIN _indicators_for_trades)
    + SumLen(_indicators_for_bars, DOMAIN _indicators_for_bars)

\* The register_* actions take their arguments from the given sets.
RegisterForQuoteTicks(symbols, indicators) ==
    \E symbol \in symbols, indicator \in indicators :
        /\ Registrations < MaxRegistrations
        /\ Return("register_indicator_for_quote_ticks", Args(symbol, indicator, FALSE),
                  register_indicator_for_quote_ticks(Self, symbol, indicator))

RegisterForTradeTicks(symbols, indicators) ==
    \E symbol \in symbols, indicator \in indicators :
        /\ Registrations < MaxRegistrations
        /\ Return("register_indicator_for_trade_ticks", Args(symbol, indicator, FALSE),
                  register_indicator_for_trade_ticks(Self, symbol, indicator))

RegisterForBars(bar_types, indicators) ==
    \E bar_type \in bar_types, indicator \in indicators :
        /\ Registrations < MaxRegistrations
        /\ Return("register_indicator_for_bars", Args(bar_type, indicator, FALSE),
                  register_indicator_for_bars(Self, bar_type, indicator))

RegisterStopLossOf(orders) ==
    \E order \in orders, propagates \in BOOLEAN :
        Return("register_stop_loss", Args("", order, FALSE),
               register_stop_loss(Self, order, propagates))

RegisterTakeProfitOf(orders) ==
    \E order \in orders, propagates \in BOOLEAN :
        Return("register_take_profit", Args("", order, FALSE),
               register_take_profit(Self, order, propagates))

RegisterIndicatorForQuoteTicks == RegisterForQuoteTicks(Symbols, Indicators)

RegisterIndicatorForTradeTicks == RegisterForTradeTicks(Symbols, Indicators)

RegisterIndicatorForBars == RegisterForBars(BarTypes, Indicators)

RegisterStopLoss == RegisterStopLossOf(Orders)

RegisterTakeProfit == RegisterTakeProfitOf(Orders)

\* The same calls for one symbol, one indicator and one order.
RegisterOneForQuoteTicks == RegisterForQuoteTicks({"AUDUSD"}, {1})

RegisterOneForTradeTicks == RegisterForTradeTicks({"AUDUSD"}, {1})

RegisterOneForBars == RegisterForBars(BarTypes, {1})

RegisterOneStopLoss == RegisterStopLossOf({1})

RegisterOneTakeProfit == RegisterTakeProfitOf({1})

\* Stop-loss registration of the first two orders.
RegisterTwoStopLoss == RegisterStopLossOf({1, 2})

\* The market-data handlers take their arguments from the given sets;
\* `raisings` are the sets of callbacks that may raise.
HandleQuoteTickOf(symbols, raisings) ==
    \E symbol \in symbols, id \in Ticks, is_historical \in BOOLEAN, raising \in raisings :
        Return("handle_quote_tick", Args(symbol, id, is_historical),
               handle_quote_tick(Self, [symbol |-> symbol, id |-> id], is_historical, raising))

HandleTradeTickOf(symbols, raisings) ==
    \E symbol \in symbols, id \in Ticks, is_historical \in BOOLEAN, raising \in raisings :
        Return("handle_trade_tick", Args(symbol, id, is_historical),
               handle_trade_tick(Self, [symbol |-> symbol, id |-> id], is_historical, raising))

HandleBarOf(bar_types, raisings) ==
    \E bar_type \in bar_types, bar \in Ticks, is_historical \in BOOLEAN, raising \in raisings :
        Return("handle_bar", Args(bar_type, bar, is_historical),
               handle_bar(Self, bar_type, bar, is_historical, raising))

\* Data for every symbol, the callbacks returning normally.
HandleQuoteTick == HandleQuoteTickOf(Symbols, {{}})

HandleTradeTick == HandleTradeTickOf(Symbols, {{}})

HandleBar == HandleBarOf(BarTypes, {{}})

\* Data for one symbol, the callbacks returning or raising.
HandleOneQuoteTick == HandleQuoteTickOf({"AUDUSD"}, SUBSET {"on_quote_tick"})

HandleOneTradeTick == HandleTradeTickOf({"AUDUSD"}, SUBSET {"on_trade_tick"})

HandleOneBar == HandleBarOf(BarTypes, SUBSET {"on_bar"})

\* The lists of at most MaxBars bars.
BarLists == UNION {[1..n -> Ticks] : n \in 0..MaxBars}

HandleBars ==
    \E bar_type \in BarTypes, bars \in BarLists :
        Return("handle_bars", Args(bar_type, bars, TRUE), handle_bars(Self, bar_type, bars))

HandleData ==
    \E data \in Ticks, raising \in SUBSET {"on_data"} :
        Return("handle_data", Args("", data, FALSE), handle_data(Self, raising))

\* The execution engine passes an event of one of `types` to the strategy;
\* `raisings` are the sets of callbacks that may raise.
DeliverOf(types, raisings) ==
    \E type \in types, id \in Orders \cup Positions, raising \in raisings :
        LET event == [type |-> type, id |-> id]
        IN /\ EventPossible(Self, event)
           /\ Return("handle_event", Args(type, id, FALSE),
                     handle_event(database_update(Self, event), event, raising))

Deliver(types) == DeliverOf(types, SUBSET {"on_event"})

\* Events of every class but OrderWorking, which changes nothing but the
\* working orders of the database (HandleOrderEvent delivers it).
HandleEvent == Deliver(EventTypes \ {"OrderWorking"})

HandlePositionEvent == Deliver(PositionEventTypes)

\* A rejection, a fill and the opening and closing of positions.
HandleSomeEvent == Deliver(PositionEventTypes \cup {"OrderRejected", "OrderFilled"})

\* The events that change the execution engine's database.
HandleDatabaseEvent == Deliver(PositionEventTypes \cup {"OrderWorking", "OrderFilled"})

FlattenAllPositions ==
    Return("flatten_all_positions", NoArgs, flatten_all_positions(Self))

\* A rejection and the opening and closing of positions, on_event returning
\* normally.
HandleFlattenEvent == DeliverOf(PositionEventTypes \cup {"OrderRejected"}, {{}})

FlattenPosition ==
    \E cl_pos_id \in Positions :
        Return("flatten_position", Args("", cl_pos_id, FALSE), flatten_position(Self, cl_pos_id))

SubmitOrder ==
    \E cl_pos_id \in Positions :
        Return("submit_order", Args("", cl_pos_id, FALSE), submit_order(Self, cl_pos_id))

\* The bracket orders: a stop-loss, with or without a take-profit.
BracketOrders == [stop_loss : Orders, has_take_profit : BOOLEAN, take_profit : Orders]

SubmitBracketOrder ==
    \E bracket_order \in BracketOrders, cl_pos_id \in Positions, register \in BOOLEAN,
       propagates \in BOOLEAN :
        /\ bracket_order.has_take_profit => bracket_order.take_profit # bracket_order.stop_loss
        /\ ~bracket_order.has_take_profit => bracket_order.take_profit = bracket_order.stop_loss
        /\ Return("submit_bracket_order",
                  Args("BracketOrder", [bracket_order |-> bracket_order, register |-> register],
                       FALSE),
                  submit_bracket_order(Self, bracket_order, cl_pos_id, register, propagates))

\* new_quantity and new_price are optional: None when not given.
ModifyOrder ==
    \E order \in Orders, new_quantity \in Quantities \cup {None}, new_price \in Ticks \cup {None} :
        Return("modify_order",
               Args("", [order |-> order, new_quantity |-> new_quantity,
                         new_price |-> new_price], FALSE),
               modify_order(Self, order, new_quantity, new_price))

CancelOrder ==
    \E order \in Orders :
        Return("cancel_order", Args("", order, FALSE), cancel_order(Self, order))

CancelAllOrders ==
    Return("cancel_all_orders", NoArgs, cancel_all_orders(Self))

\* The execution engine applies an event of the venue to the order of
\* ClientOrderId 1 and, the event being legal for the order, passes it to the
\* strategy; a fill never exceeds the quantity the order has left.
DeliverOrderEvent ==
    \E type \in {"OrderSubmitted", "OrderAccepted", "OrderFilled", "OrderExpired"},
       last_qty \in Quantities :
        LET event == [type |-> type, last_qty |-> last_qty]
            r == Order_apply(order_entity, event)
            e == [type |-> type, id |-> 1]
            s == [database_update(Self, e) EXCEPT !.order_entity = r.order]
        IN /\ _exec_engine
           /\ r.raised = "none"
           /\ Len(order_entity.events) <= MaxEvents
           /\ type = "OrderFilled" =>
                  order_entity.filled_qty + last_qty <= order_entity.quantity
           /\ type # "OrderFilled" => last_qty = 1
           /\ Return("handle_event", Args(type, 1, FALSE), handle_event(s, e, {}))

\* Orders start and stop working.
HandleOrderEvent == DeliverOf({"OrderWorking", "OrderCancelled"}, {{}})

\* The mappings on_save returns: no entry, or a value of the user.
UserStates == {EmptyDict, [k \in {"user_key"} |-> 1]}

Save ==
    \E user_state \in UserStates, raising \in SUBSET {"on_save"} :
        Return("save", Args("", user_state, FALSE), save(Self, user_state, raising))

\* The mappings load is given: no entry; a value of the user alone; the
\* counts under the bytes keys, as read from a store; the counts under the
\* str keys, as save() returns them.
LoadStates ==
    {EmptyDict, [k \in {"user_key"} |-> Bytes(1)]}
    \cup {[k \in {OrderIdCountKey} |-> Bytes(n)] : n \in 1..MaxCount}
    \cup {[k \in {OrderIdCountKey, PositionIdCountKey, "user_key"} |->
              IF k = OrderIdCountKey THEN Bytes(n) ELSE Bytes(1)] : n \in 1..MaxCount}
    \cup {[k \in {"OrderIdCount", "PositionIdCount"} |-> n] : n \in 1..MaxCount}

Load ==
    \E state \in LoadStates, raising \in SUBSET {"on_load"} :
        Return("load", Args("", state, FALSE), load(Self, state, raising))

\* The round trip: load is given the mapping that save() returned on a
\* strategy whose order and position id counts were c1 and c2.
LoadSaved ==
    \E c1 \in 0..MaxCount, c2 \in 0..MaxCount, user_state \in UserStates,
       raising \in SUBSET {"on_load"} :
        LET saving == [Self EXCEPT !.order_factory = c1, !.position_id_generator = c2]
            saved == save(saving, user_state, {}).result[1]
        IN Return("load", Args("saved", saved, FALSE), load(Self, saved, raising))

\* The call of a method of a message or of the data client that returned
\* `result`, having sent `trace` to the message bus.
Called(name, args, result, trace) ==
    [name |-> name, args |-> args, from |-> _fsm,
     raised |-> "none", trace |-> trace, result |-> result]

MessageEq ==
    \E self \in Messages, other \in Messages :
        /\ call' = Called("__eq__", Args("Message", <<self, other>>, FALSE),
                       <<Message_eq(self, other)>>, <<>>)
        /\ UNCHANGED <<strategy_vars, account>>

MessageHash ==
    \E self \in Messages :
        /\ call' = Called("__hash__", Args("Message", <<self>>, FALSE), <<Message_hash(self)>>, <<>>)
        /\ UNCHANGED <<strategy_vars, account>>

\* The lists of ticks a request returns.
TickLists == {<<>>, <<1>>, <<1, 2>>}

\* What a response handler is given: the subject and the data of the
\* response, the correlation id of the request, and the id the uuid factory
\* generates for the response.
Responses(subjects, data) ==
    [subject : subjects, data : data, correlation_id : UUIDs, response_id : UUIDs]

ClientHandleData ==
    \E self \in ClientIds, data \in Ticks :
        /\ call' = Called("_handle_data", Args("Data", data, FALSE), <<>>, _handle_data(self, data))
        /\ UNCHANGED <<strategy_vars, account>>

ClientHandleDataResponse ==
    \E self \in ClientIds, r \in Responses({"Data"}, Ticks) :
        /\ call' = Called("_handle_data_response", Args("DataResponse", r, FALSE), <<>>,
                       _handle_data_response(self, DataType(r.subject, None), r.data,
                                             r.correlation_id, r.response_id))
        /\ UNCHANGED <<strategy_vars, account>>

ClientHandleQuoteTicks ==
    \E self \in ClientIds, r \in Responses(Symbols, TickLists) :
        /\ call' = Called("_handle_quote_ticks", Args("DataResponse", r, FALSE), <<>>,
                       _handle_quote_ticks(self, r.subject, r.data,
                                           r.correlation_id, r.response_id))
        /\ UNCHANGED <<strategy_vars, account>>

ClientHandleTradeTicks ==
    \E self \in ClientIds, r \in Responses(Symbols, TickLists) :
        /\ call' = Called("_handle_trade_ticks", Args("DataResponse", r, FALSE), <<>>,
                       _handle_trade_ticks(self, r.subject, r.data,
                                           r.correlation_id, r.response_id))
        /\ UNCHANGED <<strategy_vars, account>>

ClientHandleBars ==
    \E self \in ClientIds, r \in Responses(BarTypes, TickLists), partial \in Ticks :
        /\ call' = Called("_handle_bars", Args("DataResponse", r, FALSE), <<>>,
                       _handle_bars(self, r.subject, r.data, partial,
                                    r.correlation_id, r.response_id))
        /\ UNCHANGED <<strategy_vars, account>>

\* An event of the venue is applied to the order; a fill never exceeds the
\* quantity the order has left.
OrderApply ==
    \E event \in OrderEvents :
        LET r == Order_apply(order_entity, event)
        IN /\ r.raised = "none" => Len(order_entity.events) <= MaxEvents
           /\ event.type = "OrderFilled" =>
                  order_entity.filled_qty + event.last_qty <= order_entity.quantity
           /\ event.type # "OrderFilled" => event.last_qty = 1
           /\ order_entity' = r.order
           /\ call' = [name |-> "Order.apply",
                       args |-> Args(event.type, event.last_qty, FALSE),
                       from |-> order_entity.status, raised |-> r.raised,
                       trace |-> <<>>, result |-> <<>>]
           /\ UNCHANGED <<_fsm, _data_engine, _exec_engine, flatten_on_stop,
                          flatten_on_reject, cancel_all_orders_on_stop, reraise_exceptions,
                          _flattening_ids, _stop_loss_ids, _take_profit_ids, _indicators,
                          _indicators_for_quotes, _indicators_for_trades,
                          _indicators_for_bars, order_factory, position_id_generator,
                          clock, database, indicator_inputs, account,
                          on_start_completed>>

SetTimer ==
    \E name \in TimerNames :
        /\ name \notin clock
        /\ Return("set_timer", NoArgs, set_timer(Self, name))

GeneratePositionId ==
    Return("generate", NoArgs, position_id_generator_generate(Self))

\* ---- specifications -------------------------------------------------------
\* The state after __init__ and register_trader, for given management flags
\* and the sides and quantities the positions will be opened with; the
\* engines are left to the specification.
StrategyConstructed(fos, forj, caos, re, sides, quantities) ==
    /\ _fsm = "INITIALIZED"
    /\ flatten_on_stop = fos
    /\ flatten_on_reject = forj
    /\ cancel_all_orders_on_stop = caos
    /\ reraise_exceptions = re
    /\ _flattening_ids = {}
    /\ _stop_loss_ids = {}
    /\ _take_profit_ids = {}
    /\ _indicators = <<>>
    /\ _indicators_for_quotes = EmptyDict
    /\ _indicators_for_trades = EmptyDict
    /\ _indicators_for_bars = EmptyDict
    /\ order_factory = 0
    /\ position_id_generator = 0
    /\ clock = {}
    /\ database = [positions |-> [p \in Positions |-> "none"],
                   market_position |-> sides,
                   quantity |-> quantities,
                   positions_flattening |-> {},
                   orders_working |-> {},
                   position_ids |-> [o \in Orders |-> IF o \in Positions THEN o ELSE None]]
    /\ indicator_inputs = [i \in Indicators |-> None]
    /\ on_start_completed = FALSE
    /\ call = [name |-> "__init__", args |-> NoArgs, from |-> "INITIALIZED",
               raised |-> "none", trace |-> <<>>, result |-> <<>>]

\* The events accounts are built from: a multi-currency account holding one
\* or two currencies, and single-currency accounts whose first event carries
\* the base currency or another one.
StartingEvents ==
    {[account_id |-> "SIM-001", base_currency |-> NoCurrency,
      balances |-> <<AccountBalance("USD", 1, 0)>>],
     [account_id |-> "SIM-001", base_currency |-> NoCurrency,
      balances |-> <<AccountBalance("USD", 1, 0), AccountBalance("AUD", 1, 0)>>],
     [account_id |-> "SIM-001", base_currency |-> "USD",
      balances |-> <<AccountBalance("USD", 1, 0)>>],
     [account_id |-> "SIM-001", base_currency |-> "USD",
      balances |-> <<AccountBalance("AUD", 1, 0)>>]}

\* A constructed strategy beside an account that nothing is applied to.
ConstructedWith(fos, forj, caos, re, sides, quantities) ==
    /\ StrategyConstructed(fos, forj, caos, re, sides, quantities)
    /\ order_entity = Order(1)
    /\ account = Account([account_id |-> "SIM-001", base_currency |-> "USD",
                          balances |-> <<AccountBalance("USD", 1, 0)>>])

\* The same with every position opened LONG for a quantity of 1.
Constructed(fos, forj, caos, re) ==
    ConstructedWith(fos, forj, caos, re,
                    [p \in Positions |-> "LONG"], [p \in Positions |-> 1])

\* The lifecycle of a strategy under every setting of the two flags stop()
\* reads, with the execution engine's database and the clock changing.
Init ==
    /\ _data_engine = FALSE
    /\ _exec_engine = FALSE
    /\ \E fos \in BOOLEAN, caos \in BOOLEAN : Constructed(fos, TRUE, caos, TRUE)

Next ==
    \/ RegisterDataEngine
    \/ RegisterExecutionEngine
    \/ Start
    \/ Stop
    \/ Resume
    \/ Reset
    \/ Dispose
    \/ HandleDatabaseEvent
    \/ SetTimer

Spec == Init /\ [][Next]_vars

\* A session of a strategy with the default flags: registrations, tagged
\* orders, flattening and id generation between the lifecycle calls.
InitSession ==
    /\ _data_engine = FALSE
    /\ _exec_engine = FALSE
    /\ Constructed(TRUE, TRUE, TRUE, TRUE)

NextSession ==
    \/ RegisterDataEngine
    \/ RegisterExecutionEngine
    \/ Start
    \/ Stop
    \/ Reset
    \/ RegisterOneForQuoteTicks
    \/ RegisterOneForTradeTicks
    \/ RegisterOneForBars
    \/ RegisterOneStopLoss
    \/ RegisterOneTakeProfit
    \/ FlattenPosition
    \/ GeneratePositionId
    \/ HandlePositionEvent

SpecSession == InitSession /\ [][NextSession]_vars

\* Market data arriving at a strategy whose engines may or may not have been
\* registered, in every state the lifecycle calls can leave it in.
InitData ==
    /\ _data_engine \in BOOLEAN
    /\ _exec_engine = TRUE
    /\ Constructed(TRUE, TRUE, TRUE, TRUE)

NextData ==
    \/ Start
    \/ Stop
    \/ RegisterIndicatorForQuoteTicks
    \/ RegisterOneForTradeTicks
    \/ RegisterOneForBars
    \/ HandleQuoteTick
    \/ HandleTradeTick
    \/ HandleBar

SpecData == InitData /\ [][NextData]_vars

\* Data and events arriving at a strategy with either setting of
\* reraise_exceptions.
InitHandlers ==
    /\ _data_engine = TRUE
    /\ _exec_engine = TRUE
    /\ \E re \in BOOLEAN : Constructed(TRUE, TRUE, TRUE, re)

NextHandlers ==
    \/ Start
    \/ RegisterOneForQuoteTicks
    \/ RegisterOneForTradeTicks
    \/ RegisterOneForBars
    \/ RegisterOneStopLoss
    \/ RegisterOneTakeProfit
    \/ HandleOneQuoteTick
    \/ HandleOneTradeTick
    \/ HandleOneBar
    \/ HandleData
    \/ HandleSomeEvent

SpecHandlers == InitHandlers /\ [][NextHandlers]_vars

\* Events of every class arriving at a strategy with orders registered as
\* stop-loss and take-profit, in every state of its lifecycle.
InitEvents ==
    /\ _data_engine = TRUE
    /\ _exec_engine = TRUE
    /\ \E forj \in BOOLEAN : Constructed(FALSE, forj, FALSE, TRUE)

NextEvents ==
    \/ Start
    \/ RegisterTwoStopLoss
    \/ RegisterOneTakeProfit
    \/ HandleEvent

SpecEvents == InitEvents /\ [][NextEvents]_vars

\* Every way the strategy flattens a position: flatten_position,
\* flatten_all_positions, stop() with flatten_on_stop and the rejection of a
\* registered stop-loss, for positions opened LONG or SHORT in any quantity.
InitFlatten ==
    /\ _data_engine = TRUE
    /\ _exec_engine = TRUE
    /\ \E sides \in [Positions -> {"LONG", "SHORT"}], quantities \in [Positions -> Quantities] :
          ConstructedWith(TRUE, TRUE, FALSE, TRUE, sides, quantities)

NextFlatten ==
    \/ Start
    \/ Stop
    \/ Resume
    \/ Reset
    \/ Dispose
    \/ RegisterOneStopLoss
    \/ HandleFlattenEvent
    \/ FlattenPosition
    \/ FlattenAllPositions

SpecFlatten == InitFlatten /\ [][NextFlatten]_vars

\* The commands of a strategy, before and after the execution engine is
\* registered, while orders start and stop working.
InitCommands ==
    /\ _data_engine = TRUE
    /\ _exec_engine = FALSE
    /\ Constructed(FALSE, FALSE, FALSE, TRUE)

NextCommands ==
    \/ RegisterExecutionEngine
    \/ Start
    \/ Stop
    \/ HandleOrderEvent
    \/ SubmitOrder
    \/ ModifyOrder
    \/ CancelOrder
    \/ CancelAllOrders

SpecCommands == InitCommands /\ [][NextCommands]_vars

\* A strategy that is saved and loaded while its id generators count.
InitPersistence ==
    /\ _data_engine = FALSE
    /\ _exec_engine = FALSE
    /\ Constructed(FALSE, FALSE, FALSE, TRUE)

NextPersistence ==
    \/ Start
    \/ GeneratePositionId
    \/ Save
    \/ Load
    \/ LoadSaved

SpecPersistence == InitPersistence /\ [][NextPersistence]_vars

\* Messages compared and hashed.
InitMessages ==
    /\ _data_engine = FALSE
    /\ _exec_engine = FALSE
    /\ Constructed(FALSE, FALSE, FALSE, TRUE)

NextMessages ==
    \/ MessageEq
    \/ MessageHash

SpecMessages == InitMessages /\ [][NextMessages]_vars

\* A data client handing inbound data and request results to the bus.
InitDataClient ==
    /\ _data_engine = FALSE
    /\ _exec_engine = FALSE
    /\ Constructed(FALSE, FALSE, FALSE, TRUE)

NextDataClient ==
    \/ ClientHandleData
    \/ ClientHandleDataResponse
    \/ ClientHandleQuoteTicks
    \/ ClientHandleTradeTicks
    \/ ClientHandleBars

SpecDataClient == InitDataClient /\ [][NextDataClient]_vars

\* Lists of bars arriving at a strategy with indicators registered for bars.
InitBars ==
    /\ _data_engine = TRUE
    /\ _exec_engine = TRUE
    /\ Constructed(TRUE, TRUE, TRUE, TRUE)

NextBars ==
    \/ Start
    \/ RegisterIndicatorForBars
    \/ HandleBars

SpecBars == InitBars /\ [][NextBars]_vars

\* An account built from its first event, with events applied and
\* commissions added; the strategy beside it is idle.
InitAccount ==
    /\ _data_engine = FALSE
    /\ _exec_engine = FALSE
    /\ StrategyConstructed(TRUE, TRUE, TRUE, TRUE,
                           [p \in Positions |-> "LONG"], [p \in Positions |-> 1])
    /\ order_entity = Order(1)
    /\ \E event \in StartingEvents : account = Account(event)

NextAccount ==
    \/ Apply
    \/ UpdateCommissions

SpecAccount == InitAccount /\ [][NextAccount]_vars

\* Every sequence of lifecycle calls and engine registrations, with the
\* history of on_start recorded.
InitLifecycle ==
    /\ _data_engine = FALSE
    /\ _exec_engine = FALSE
    /\ Constructed(FALSE, FALSE, FALSE, TRUE)

NextLifecycle ==
    \/ RegisterDataEngine
    \/ RegisterExecutionEngine
    \/ StartRecorded
    \/ Stop
    \/ Resume
    \/ ResetRecorded
    \/ Dispose

SpecLifecycle == InitLifecycle /\ [][NextLifecycle]_vars

\* An order of two units registered as stop-loss or take-profit while the
\* venue accepts and fills it, in one fill or in two.
InitFills ==
    /\ _data_engine = TRUE
    /\ _exec_engine = TRUE
    /\ StrategyConstructed(FALSE, FALSE, FALSE, TRUE,
                           [p \in Positions |-> "LONG"], [p \in Positions |-> 1])
    /\ account = Account([account_id |-> "SIM-001", base_currency |-> "USD",
                          balances |-> <<AccountBalance("USD", 1, 0)>>])
    /\ order_entity = Order(2)

NextFills ==
    \/ Start
    \/ RegisterOneStopLoss
    \/ RegisterOneTakeProfit
    \/ DeliverOrderEvent

SpecFills == InitFills /\ [][NextFills]_vars

\* Bracket orders submitted by a strategy, before and after the execution
\* engine is registered, whose stop-loss and take-profit sets also take
\* registrations of single orders and release them on completion.
InitBracket ==
    /\ _data_engine = TRUE
    /\ _exec_engine = FALSE
    /\ Constructed(FALSE, FALSE, FALSE, TRUE)

NextBracket ==
    \/ RegisterExecutionEngine
    \/ RegisterStopLoss
    \/ RegisterTakeProfit
    \/ SubmitBracketOrder

SpecBracket == InitBracket /\ [][NextBracket]_vars

\* An order of either quantity to which the events of the venue are applied
\* in every order, legal or not.
InitOrder ==
    /\ _data_engine = FALSE
    /\ _exec_engine = FALSE
    /\ StrategyConstructed(FALSE, FALSE, FALSE, TRUE,
                           [p \in Positions |-> "LONG"], [p \in Positions |-> 1])
    /\ account = Account([account_id |-> "SIM-001", base_currency |-> "USD",
                          balances |-> <<AccountBalance("USD", 1, 0)>>])
    /\ \E quantity \in Quantities : order_entity = Order(quantity)

NextOrder == OrderApply

SpecOrder == InitOrder /\ [][NextOrder]_vars

\* An account that takes events of one entry, commissions and rebates.
InitCommissions == InitAccount

NextCommissions ==
    \/ ApplyOne
    \/ UpdateAnyCommissions

SpecCommissions == InitCommissions /\ [][NextCommissions]_vars

\* An account that takes events and commissions and answers queries.
InitQueries == InitAccount

NextQueries ==
    \/ ApplyOne
    \/ UpdateCommissions
    \/ Balance
    \/ BalanceTotal
    \/ BalanceFree
    \/ BalanceLocked
    \/ StartingBalancesOfAccount

SpecQueries == InitQueries /\ [][NextQueries]_vars

\* ---- reading a call's trace -----------------------------------------------
\* The positions of effect e in the trace of call c.
Places(c, e) == {k \in 1..Len(c.trace) : c.trace[k] = e}

Invoked(c, name) == Places(c, Effect("callback", name, None)) # {}

\* The callback was invoked and raised: its exception was logged right after.
Failed(c, name) ==
    \E k \in Places(c, Effect("callback", name, None)) :
        k + 1 \in Places(c, Effect("log", "exception", None))

LifecycleCallbacks == {"on_start", "on_stop", "on_resume", "on_reset", "on_dispose"}

\* ---- claims: lifecycle ------------------------------------------------------
\* C1: start() takes the strategy to RUNNING only if, at that call, the START
\* trigger was valid, the data engine and the execution engine were both
\* registered, and on_start was invoked and returned without raising.
C1_StartRunsOnlyWhenReady ==
    (call.name = "start" /\ _fsm = "RUNNING") =>
        /\ TriggerValid(call.from, "START")
        /\ _data_engine
        /\ _exec_engine
        /\ Invoked(call, "on_start")
        /\ ~Failed(call, "on_start")

C1_Witness == call.name = "start" /\ call.from = "INITIALIZED" /\ _fsm = "RUNNING"

\* C2: start() called where START is valid with the data engine or the
\* execution engine not registered, or with on_start raising, falls back to
\* stop: the state is STOPPED when start() returns.
C2_StartFallsBackToStop ==
    [][(/\ call'.name = "start"
        /\ TriggerValid(_fsm, "START")
        /\ (~_data_engine \/ ~_exec_engine \/ Failed(call', "on_start")))
          => _fsm' = "STOPPED"]_vars

\* C3: whenever a lifecycle call has returned control to its caller, the FSM
\* is in a stable state and not in a transitional one.
C3_NeverLeftTransitional == _fsm \in StableStates

\* C4: stop() called where STOP is valid ends in STOPPED, having cancelled the
\* timers first, then submitted one flatten order per open position if
\* flatten_on_stop, then one cancel per working order if
\* cancel_all_orders_on_stop, then invoked on_stop exactly once, whether or
\* not on_stop raised.
C4_StopReachesStopped ==
    [][(call'.name = "stop" /\ TriggerValid(_fsm, "STOP")) =>
          LET c == call'
              submits == {k \in 1..Len(c.trace) :
                            c.trace[k].kind = "command" /\ c.trace[k].name = "SubmitOrder"}
              cancels == {k \in 1..Len(c.trace) :
                            c.trace[k].kind = "command" /\ c.trace[k].name = "CancelOrder"}
              on_stops == Places(c, Effect("callback", "on_stop", None))
          IN /\ _fsm' = "STOPPED"
             /\ clock' = {}
             /\ Len(c.trace) > 0
             /\ c.trace[1] = Effect("clock", "cancel_all_timers", None)
             /\ \A p \in Positions :
                    Cardinality(Places(c, Effect("command", "SubmitOrder", p)))
                      = IF flatten_on_stop /\ database.positions[p] = "open" THEN 1 ELSE 0
             /\ \A o \in Orders :
                    Cardinality(Places(c, Effect("command", "CancelOrder", o)))
                      = IF cancel_all_orders_on_stop /\ o \in database.orders_working
                        THEN 1 ELSE 0
             /\ Cardinality(on_stops) = 1
             /\ \A i \in submits, j \in cancels : i < j
             /\ \A i \in submits \cup cancels, j \in on_stops : i < j]_vars

\* The trigger a lifecycle call starts with.
FirstTrigger(name) ==
    CASE name = "start" -> "START"
      [] name = "stop" -> "STOP"
      [] name = "resume" -> "RESUME"
      [] name = "reset" -> "RESET"
      [] name = "dispose" -> "DISPOSE"

LifecycleCalls == {"start", "stop", "resume", "reset", "dispose"}

\* stop() was entered: its first act is to cancel the timers.
StopEntered(c) == Places(c, Effect("clock", "cancel_all_timers", None)) # {}

\* C5: a lifecycle call on an invalid trigger never raises to its caller.
\* start() and resume() on an invalid trigger run stop() and invoke neither
\* on_start nor on_resume; stop(), reset() and dispose() on an invalid trigger
\* invoke no callback and leave the FSM state, the flattening, stop-loss and
\* take-profit sets and the indicator registrations as they were.
C5_InvalidTriggerDegrades ==
    [][(call'.name \in LifecycleCalls /\ ~TriggerValid(_fsm, FirstTrigger(call'.name))) =>
          LET c == call'
          IN /\ c.raised = "none"
             /\ c.name \in {"start", "resume"} =>
                  /\ ~Invoked(c, "on_start")
                  /\ ~Invoked(c, "on_resume")
                  /\ IF TriggerValid(_fsm, "STOP")
                     THEN StopEntered(c)
                     ELSE _fsm' = _fsm
             /\ c.name \in {"stop", "reset", "dispose"} =>
                  /\ \A k \in 1..Len(c.trace) : c.trace[k].kind # "callback"
                  /\ UNCHANGED <<_fsm, _flattening_ids, _stop_loss_ids, _take_profit_ids,
                                 _indicators, _indicators_for_quotes,
                                 _indicators_for_trades, _indicators_for_bars>>]_vars

C7_DisposedIsTerminal ==
    call.from = "DISPOSED" =>
        /\ _fsm = "DISPOSED"
        /\ \A k \in 1..Len(call.trace) :
              call.trace[k].kind = "callback" => call.trace[k].name \notin LifecycleCallbacks

C7_Witness == call.from = "DISPOSED" /\ call.name = "start" /\ _fsm = "DISPOSED"

\* C8: reset() on a valid RESET trigger leaves the flattening, stop-loss and
\* take-profit sets, the indicator list and the three indicator maps empty,
\* the order factory and the position id generator at count 0 and the FSM
\* INITIALIZED, and returns normally, also when on_reset raises.
C8_ResetClearsSession ==
    (call.name = "reset" /\ TriggerValid(call.from, "RESET")) =>
        /\ _flattening_ids = {}
        /\ _stop_loss_ids = {}
        /\ _take_profit_ids = {}
        /\ _indicators = <<>>
        /\ DOMAIN _indicators_for_quotes = {}
        /\ DOMAIN _indicators_for_trades = {}
        /\ DOMAIN _indicators_for_bars = {}
        /\ order_factory = 0
        /\ position_id_generator = 0
        /\ _fsm = "INITIALIZED"
        /\ call.raised = "none"
        /\ Invoked(call, "on_reset")

C8_Witness ==
    /\ call.name = "reset"
    /\ call.from = "STOPPED"
    /\ Failed(call, "on_reset")
    /\ _fsm = "INITIALIZED"

\* ---- claims: handlers -------------------------------------------------------
DataHandlers == {"handle_quote_tick", "handle_trade_tick", "handle_bar"}

\* The callback a handler ends with.
CallbackOf(name) ==
    CASE name = "handle_quote_tick" -> "on_quote_tick"
      [] name = "handle_trade_tick" -> "on_trade_tick"
      [] name = "handle_bar" -> "on_bar"
      [] name = "handle_data" -> "on_data"
      [] name = "handle_event" -> "on_event"

\* The indicators registered for the data of call c, in registration order.
RegisteredFor(c) ==
    CASE c.name = "handle_quote_tick" -> DictGet(_indicators_for_quotes, c.args.type)
      [] c.name = "handle_trade_tick" -> DictGet(_indicators_for_trades, c.args.type)
      [] c.name = "handle_bar" -> DictGet(_indicators_for_bars, c.args.type)
      [] OTHER -> <<>>

\* C9: handle_quote_tick, handle_trade_tick and handle_bar first pass the
\* data item to every indicator registered for its symbol or bar type, and to
\* no other, in every FSM state; the on_* callback follows, and is invoked
\* exactly when is_historical is false and the FSM state is RUNNING.
C9_IndicatorsThenCallback ==
    call.name \in DataHandlers =>
        LET c == call
            registered == RegisteredFor(c)
            updates == {k \in 1..Len(c.trace) : c.trace[k].kind = "indicator"}
        IN /\ Len(c.trace) >= Len(registered)
           /\ updates = 1..Len(registered)
           /\ \A k \in updates :
                 /\ c.trace[k] = Effect("indicator", c.name, registered[k])
                 /\ indicator_inputs[registered[k]] = c.args.id
           /\ Invoked(c, CallbackOf(c.name)) <=>
                 (~c.args.is_historical /\ c.from = "RUNNING")
           /\ \A k \in Places(c, Effect("callback", CallbackOf(c.name), None)) :
                 k = Len(registered) + 1

C9_Witness ==
    /\ call.name = "handle_quote_tick"
    /\ call.from = "STOPPED"
    /\ ~call.args.is_historical
    /\ Len(RegisteredFor(call)) = 2
    /\ Len(call.trace) = 2

\* C10: when the callback of a handler raises, the exception reaches the
\* handler's caller exactly when reraise_exceptions is true; either way the
\* FSM state is the one the handler was called in, the registered indicators
\* hold the data item, and the ids handle_event discards stay discarded.
C10_CallbackExceptionPolicy ==
    (call.name \in DataHandlers \cup {"handle_data", "handle_event"}
     /\ Failed(call, CallbackOf(call.name))) =>
        LET c == call
            registered == RegisteredFor(c)
        IN /\ c.raised = (IF reraise_exceptions THEN "Exception" ELSE "none")
           /\ _fsm = c.from
           /\ \A k \in 1..Len(registered) : indicator_inputs[registered[k]] = c.args.id
           /\ (c.name = "handle_event" /\ c.args.type \in _ORDER_COMPLETION_TRIGGERS) =>
                 c.args.id \notin _stop_loss_ids \cup _take_profit_ids
           /\ (c.name = "handle_event" /\ c.args.type = "PositionClosed") =>
                 c.args.id \notin _flattening_ids
           /\ \A p \in Positions :
                 Places(c, Effect("command", "SubmitOrder", p)) # {} => p \in _flattening_ids

C10_Witness ==
    /\ call.name = "handle_event"
    /\ call.args.type = "OrderRejected"
    /\ Failed(call, "on_event")
    /\ call.raised = "none"
    /\ Places(call, Effect("command", "SubmitOrder", 1)) # {}

\* ---- claims: events --------------------------------------------------------
\* C11: handle_event of an order-completion event removes the event's client
\* order id from the stop-loss set and from the take-profit set and leaves
\* every other id registered, in every FSM state and also when on_event
\* raises (the removal precedes the callback); an event of another class
\* leaves both sets as they were.
C11_CompletionReleasesRegistrations ==
    [][call'.name = "handle_event" =>
          LET released == IF call'.args.type \in _ORDER_COMPLETION_TRIGGERS
                          THEN {call'.args.id} ELSE {}
          IN /\ _stop_loss_ids' = _stop_loss_ids \ released
             /\ _take_profit_ids' = _take_profit_ids \ released]_vars

\* A rejection of stop-loss order 1 in RUNNING: the flatten order shows the
\* order was registered when the event arrived, order 2 stays registered and
\* on_event raises after the release.
C11_Witness ==
    /\ call.name = "handle_event"
    /\ call.args = Args("OrderRejected", 1, FALSE)
    /\ call.from = "RUNNING"
    /\ Places(call, Effect("command", "SubmitOrder", 1)) # {}
    /\ Failed(call, "on_event")
    /\ call.raised = "Exception"
    /\ _stop_loss_ids = {2}

\* flatten_position(Y) was called by _flatten_on_reject in call c.
FlattenOnRejectCalled(c, Y) == Places(c, Effect("log", "now_flattening", Y)) # {}

\* C12: handle_event of OrderRejected for order X calls flatten_position for
\* X's position exactly when flatten_on_reject is true, X is in the stop-loss
\* or the take-profit set as the event arrives, the database knows a position
\* id for X and that position is open; X is discarded from both sets only
\* after that check.
C12_FlattenOnRejectCondition ==
    [][(call'.name = "handle_event" /\ call'.args.type = "OrderRejected") =>
          LET X == call'.args.id
              Y == database.position_ids[X]
          IN /\ (\E p \in Positions : FlattenOnRejectCalled(call', p)) <=>
                    /\ flatten_on_reject
                    /\ X \in _stop_loss_ids \cup _take_profit_ids
                    /\ Y # None
                    /\ database.positions[Y] = "open"
             /\ \A p \in Positions : FlattenOnRejectCalled(call', p) => p = Y
             /\ X \notin _stop_loss_ids' \cup _take_profit_ids']_vars

C12_Witness ==
    /\ call.name = "handle_event"
    /\ call.args = Args("OrderRejected", 1, FALSE)
    /\ call.from = "INITIALIZED"
    /\ FlattenOnRejectCalled(call, 1)
    /\ _flattening_ids = {1}
    /\ _take_profit_ids = {}
    /\ _stop_loss_ids = {}

\* The commands call c passed to the execution engine.
Commands(c) == {k \in 1..Len(c.trace) : c.trace[k].kind = "command"}

\* C13: with flatten_on_reject true and order X registered as stop-loss for
\* the open position Y, an OrderRejected for X that arrives while Y is not
\* being flattened submits exactly one order, for Y, and puts Y in the
\* flattening set; an OrderRejected for X that arrives while Y is in the
\* flattening set passes no command to the execution engine.
C13_OneFlattenPerRejection ==
    [][(call'.name = "handle_event" /\ call'.args.type = "OrderRejected") =>
          LET X == call'.args.id
              Y == database.position_ids[X]
          IN /\ (/\ flatten_on_reject
                 /\ X \in _stop_loss_ids
                 /\ Y # None
                 /\ database.positions[Y] = "open"
                 /\ Y \notin _flattening_ids) =>
                    /\ Cardinality(Commands(call')) = 1
                    /\ Cardinality(Places(call', Effect("command", "SubmitOrder", Y))) = 1
                    /\ Y \in _flattening_ids'
             /\ (Y # None /\ Y \in _flattening_ids) =>
                    /\ Commands(call') = {}
                    /\ _flattening_ids' = _flattening_ids]_vars

\* A second rejection of order 1, registered again as stop-loss, while
\* position 1 is still being flattened.
C13_Witness ==
    /\ call.name = "handle_event"
    /\ call.args = Args("OrderRejected", 1, FALSE)
    /\ Places(call, Effect("log", "already_flattening", 1)) # {}
    /\ Commands(call) = {}
    /\ _flattening_ids = {1}
    /\ database.positions[1] = "open"

\* ---- claims: flattening ----------------------------------------------------
\* The market orders call c took from the order factory.
MarketOrders(c) == {k \in 1..Len(c.trace) : c.trace[k].kind = "order"}

\* C14: flatten_position(Y) with Y in the flattening set passes no command to
\* the execution engine and leaves the set as it was; with Y not in the set
\* and Y an open position it adds Y to the set and submits exactly one market
\* order, on the side opposite to the position and for the position's
\* quantity.
C14_FlattenPositionGuard ==
    [][call'.name = "flatten_position" =>
          LET Y == call'.args.id
              c == call'
          IN /\ Y \in _flattening_ids =>
                    /\ Commands(c) = {}
                    /\ MarketOrders(c) = {}
                    /\ _flattening_ids' = _flattening_ids
             /\ (Y \notin _flattening_ids /\ database.positions[Y] = "open") =>
                    /\ _flattening_ids' = _flattening_ids \cup {Y}
                    /\ Cardinality(Commands(c)) = 1
                    /\ Cardinality(MarketOrders(c)) = 1
                    /\ \E k \in MarketOrders(c) :
                          /\ c.trace[k].name =
                                (IF database.market_position[Y] = "LONG" THEN "SELL" ELSE "BUY")
                          /\ c.trace[k].id = database.quantity[Y]
                          /\ k + 1 \in Places(c, Effect("command", "SubmitOrder", Y))]_vars

\* flatten_position of the SHORT position 1 of quantity 2: one BUY order for 2.
C14_Witness ==
    /\ call.name = "flatten_position"
    /\ call.args.id = 1
    /\ database.market_position[1] = "SHORT"
    /\ database.quantity[1] = 2
    /\ Places(call, Effect("order", "BUY", 2)) # {}
    /\ Places(call, Effect("command", "SubmitOrder", 1)) # {}
    /\ _flattening_ids = {1}

\* Call c is handle_event of the PositionClosed event for position Y.
ClosedEvent(c, Y) == c.name = "handle_event" /\ c.args = Args("PositionClosed", Y, FALSE)

\* C15: a position id Y leaves the flattening set when, and only when,
\* handle_event receives the PositionClosed event for Y; no other operation
\* removes Y from the set.
C15_ReleasedOnlyByPositionClosed ==
    [][\A Y \in _flattening_ids :
          Y \notin _flattening_ids' <=> ClosedEvent(call', Y)]_vars

\* C15 (amended): a position id Y in the flattening set leaves it when
\* handle_event receives the PositionClosed event for Y, and otherwise only
\* when reset() on a valid RESET trigger clears the set.
C15_ReleasedByPositionClosedOrReset ==
    [][\A Y \in _flattening_ids :
          /\ ClosedEvent(call', Y) => Y \notin _flattening_ids'
          /\ Y \notin _flattening_ids' =>
                \/ ClosedEvent(call', Y)
                \/ call'.name = "reset" /\ TriggerValid(_fsm, "RESET")]_vars

\* reset() of a strategy that was never started, while the flatten order of
\* the open position 1 is in flight: the flattening set is empty again.
C15_Witness ==
    /\ call.name = "reset"
    /\ call.from = "INITIALIZED"
    /\ database.positions[1] = "open"
    /\ 1 \in database.positions_flattening
    /\ _flattening_ids = {}

\* C16: the strategy never submits two flatten orders for the same open
\* position without a PositionClosed event for it in between: a call submits
\* no order for a position whose flatten order is in flight, and at most one
\* for any other position, whichever of flatten_position,
\* flatten_all_positions, stop() and the flatten on rejection makes it.
C16_NoDuplicateFlatten ==
    [][\A p \in Positions :
          Cardinality(Places(call', Effect("command", "SubmitOrder", p)))
            <= (IF p \in database.positions_flattening THEN 0 ELSE 1)]_vars

\* ---- claims: bar lists ------------------------------------------------------
\* The timestamps of the list never decrease.
IsSorted(bars) == \A i \in 1..(Len(bars) - 1) : bars[i] <= bars[i + 1]

\* C17: handle_bars of a list whose timestamps are not in ascending order
\* raises the sort-order error, and no registered indicator receives a bar of
\* the list.
C17_UnsortedBarsRejected ==
    (call.name = "handle_bars" /\ ~IsSorted(call.args.id)) =>
        /\ call.raised = "RuntimeError"
        /\ \A k \in 1..Len(call.trace) : call.trace[k].kind # "indicator"

\* ---- claims: the account ----------------------------------------------------
\* The currencies a balance list carries.
Carried(balances) == {balances[k].currency : k \in 1..Len(balances)}

\* The entry a balance list declares for a currency it carries: the last one
\* if it names the currency more than once.
Declared(balances, currency) ==
    balances[CHOOSE k \in 1..Len(balances) :
                /\ balances[k].currency = currency
                /\ \A j \in (k + 1)..Len(balances) : balances[j].currency # currency]

\* The last event of the account's log.
last_event(a) == a._events[Len(a._events)]

\* C18: after every event applied to an account, the first included, the
\* recorded balance of each currency the event carries is the entry the
\* event declares for it, and applying an event leaves the balance of every
\* currency it does not carry as it was.
C18_LastWriteWinsPerCurrency ==
    /\ [](\A c \in Carried(last_event(account).balances) :
             /\ c \in DOMAIN account._balances
             /\ account._balances[c] = Declared(last_event(account).balances, c))
    /\ [][(call'.name = "apply" /\ call'.raised = "none") =>
             LET event == call'.args.id
             IN /\ account'._events = Append(account._events, event)
                /\ DOMAIN account'._balances = DOMAIN account._balances \cup Carried(event.balances)
                /\ \A c \in DOMAIN account._balances \ Carried(event.balances) :
                       account'._balances[c] = account._balances[c]]_vars

\* The third event of a multi-currency account brings a new USD balance and
\* leaves the AUD balance of the first event.
C18_Witness ==
    /\ call.name = "apply"
    /\ call.raised = "none"
    /\ Len(account._events) = 3
    /\ account.base_currency = NoCurrency
    /\ Carried(last_event(account).balances) = {"USD"}
    /\ account._balances["USD"].total = 2
    /\ account._events[2].balances = <<AccountBalance("USD", 1, 0)>>
    /\ "AUD" \in DOMAIN account._balances

\* C19: apply of an event whose account_id differs from the account's id, or
\* whose base_currency differs from the account's base_currency, fails, and
\* the account (event log, balances, commissions) is after the call what it
\* was before.
C19_MismatchLeavesAccount ==
    [][(/\ call'.name = "apply"
        /\ \/ call'.args.id.account_id # account.id
           \/ call'.args.id.base_currency # account.base_currency) =>
          /\ call'.raised = "ValueError"
          /\ account'._events = account._events
          /\ account'._balances = account._balances
          /\ account'._commissions = account._commissions
          /\ account' = account]_vars

\* An event of the right account with another base currency is refused by
\* an account that already took a second event and a commission.
C19_Witness ==
    /\ call.name = "apply"
    /\ call.raised = "ValueError"
    /\ call.args.id.account_id = account.id
    /\ call.args.id.base_currency # account.base_currency
    /\ call.args.id.balances # <<>>
    /\ Len(account._events) = 2
    /\ "USD" \in DOMAIN account._commissions

\* C20: on an account with a base currency, apply of an event that carries a
\* number of balance entries other than one, or one entry in another
\* currency, fails and leaves the event log and the balances as they were;
\* and such an account holds a balance for its base currency only.
C20_SingleCurrencyAccount ==
    /\ [](account.base_currency # NoCurrency =>
             DOMAIN account._balances \subseteq {account.base_currency})
    /\ [][(/\ call'.name = "apply"
           /\ account.base_currency # NoCurrency
           /\ \/ Len(call'.args.id.balances) # 1
              \/ call'.args.id.balances[1].currency # account.base_currency) =>
             /\ call'.raised = "ValueError"
             /\ account'._events = account._events
             /\ account'._balances = account._balances]_vars

\* C21: apply that succeeds replaces the balance entry of every currency the
\* event carries by the entry of the event, and every currency the event does
\* not carry has after the call the entry it had before, or none if it had
\* none.
C21_ApplyReplacesCarriedOnly ==
    [][(call'.name = "apply" /\ call'.raised = "none") =>
          \A c \in Currencies :
              IF c \in Carried(call'.args.id.balances)
              THEN /\ c \in DOMAIN account'._balances
                   /\ account'._balances[c] = Declared(call'.args.id.balances, c)
              ELSE /\ (c \in DOMAIN account'._balances) = (c \in DOMAIN account._balances)
                   /\ c \in DOMAIN account._balances =>
                          account'._balances[c] = account._balances[c]]_vars

\* An event that carries AUD alone replaced the AUD entry of a multi-currency
\* account and left the USD entry an earlier event wrote.
C21_Witness ==
    /\ call.name = "apply"
    /\ call.raised = "none"
    /\ account.base_currency = NoCurrency
    /\ Carried(call.args.id.balances) = {"AUD"}
    /\ Len(account._events) = 3
    /\ Carried(account._events[2].balances) = {"USD"}
    /\ account._events[2].balances[1].total = 2
    /\ account._balances["USD"].total = 2
    /\ account._balances["AUD"].total = 1

\* C22: the event log is never empty and its first element is the event the
\* account was constructed from; a call keeps every element the log had; an
\* apply that succeeds appends its event, an equal of a logged event
\* included; and any other call leaves the log as it was, so that the last
\* element is the event of the last apply that succeeded.
C22_EventLogAppendOnly ==
    /\ [](/\ Len(account._events) >= 1
          /\ account._events[1].account_id = account.id
          /\ account._events[1].base_currency = account.base_currency
          /\ account._starting_balances = StartingBalances(account._events[1].balances))
    /\ [][/\ Len(account'._events) >= Len(account._events)
          /\ \A k \in 1..Len(account._events) : account'._events[k] = account._events[k]
          /\ IF call'.name = "apply" /\ call'.raised = "none"
             THEN account'._events = Append(account._events, call'.args.id)
             ELSE account'._events = account._events]_vars

\* The running total of the commissions in a currency: zero if none was
\* recorded.
total_commissions(a, currency) ==
    IF currency \in DOMAIN a._commissions THEN a._commissions[currency] ELSE 0

\* C23: update_commissions with a zero amount leaves the commissions as they
\* were and creates no entry; with another amount, positive or negative, the
\* total of the commission's currency changes by that amount and the totals
\* of the other currencies stay; the balances and the event log are never
\* changed.
C23_CommissionsAccumulate ==
    [][call'.name = "update_commissions" =>
          LET currency == call'.args.type
              amount == call'.args.id
          IN /\ call'.raised = "none"
             /\ account'._balances = account._balances
             /\ account'._events = account._events
             /\ IF amount = 0
                THEN account'._commissions = account._commissions
                ELSE /\ DOMAIN account'._commissions =
                            DOMAIN account._commissions \cup {currency}
                     /\ account'._commissions[currency] =
                            total_commissions(account, currency) + amount
                     /\ \A c \in DOMAIN account._commissions \ {currency} :
                            account'._commissions[c] = account._commissions[c]]_vars

\* A rebate took the USD total below zero while an AUD total stood, on an
\* account that had taken a second event.
C23_Witness ==
    /\ call.name = "update_commissions"
    /\ call.args.type = "USD"
    /\ call.args.id = 0 - 1
    /\ DOMAIN account._commissions = {"USD", "AUD"}
    /\ account._commissions["USD"] = 0 - 1
    /\ account._commissions["AUD"] = 1
    /\ Len(account._events) = 2

\* The balance queries and the part of a balance each of them answers.
BalanceQueries == {"balance", "balance_total", "balance_free", "balance_locked"}

Answered(name, b) ==
    CASE name = "balance" -> b
      [] name = "balance_total" -> b.total
      [] name = "balance_free" -> b.free
      [] name = "balance_locked" -> b.locked

\* C24: balance, balance_total, balance_free and balance_locked called without
\* a currency answer for the base currency of the account; they fail when no
\* currency is given and the account has no base currency; they return None,
\* not a zero amount, when the currency has no recorded balance, and the
\* recorded balance (its total, free or locked amount) otherwise; and they
\* leave the account as it was.
C24_BalanceQueries ==
    [][call'.name \in BalanceQueries =>
          LET currency == IF call'.args.id = NoCurrency THEN account.base_currency
                          ELSE call'.args.id
          IN /\ account' = account
             /\ IF currency = NoCurrency
                THEN call'.raised = "ValueError"
                ELSE /\ call'.raised = "none"
                     /\ IF currency \in DOMAIN account._balances
                        THEN call'.result =
                                 <<Answered(call'.name, account._balances[currency])>>
                        ELSE call'.result = <<>>]_vars

\* balance_locked() without a currency on an account with base currency USD
\* returned the locked amount of the USD balance its second event brought.
C24_Witness ==
    /\ call.name = "balance_locked"
    /\ call.args.id = NoCurrency
    /\ call.raised = "none"
    /\ call.result = <<1>>
    /\ account.base_currency = "USD"
    /\ Len(account._events) = 2
    /\ account._balances["USD"] = AccountBalance("USD", 2, 1)

\* C25: starting_balances() reports in every state the totals of the balances
\* of the event the account was constructed from, and no call changes what
\* it reports.
C25_StartingBalancesFixed ==
    /\ [](starting_balances(account).result =
              <<StartingBalances(account._events[1].balances)>>)
    /\ [][/\ starting_balances(account').result = starting_balances(account).result
          /\ call'.name = "starting_balances" =>
                 /\ call'.result = <<StartingBalances(account._events[1].balances)>>
                 /\ call'.raised = "none"
                 /\ account' = account]_vars

\* The account started with 1 USD, holds 2 USD after a second event and a
\* commission, and starting_balances() reported 1 USD.
C25_Witness ==
    /\ call.name = "starting_balances"
    /\ call.result = <<[c \in {"USD"} |-> 1]>>
    /\ Len(account._events) = 2
    /\ account._balances["USD"].total = 2
    /\ "USD" \in DOMAIN account._commissions

\* ---- claims: commands, save and load --------------------------------------
\* The commands call c passed to the execution engine, in order.
CommandList(c) == SelectSeq(c.trace, LAMBDA e : e.kind = "command")

CommandCalls == {"submit_order", "modify_order", "cancel_order", "cancel_all_orders"}

\* C26: submit_order and cancel_order that return pass one command to the
\* execution engine, for the position or order they were given; modify_order
\* passes one ModifyOrder if a new quantity or a new price is given and none
\* if both are absent; cancel_all_orders passes one CancelOrder for each
\* working order and none if no order is working; a call that fails passes
\* none; and none of them invokes a callback, handles an event or changes the
\* FSM state.
C26_CommandsFireAndForget ==
    [][call'.name \in CommandCalls =>
          /\ _fsm' = _fsm
          /\ call'.from = _fsm
          /\ database'.orders_working = database.orders_working
          /\ database'.positions = database.positions
          /\ \A k \in 1..Len(call'.trace) : call'.trace[k].kind \in {"command", "log"}
          /\ call'.raised # "none" => CommandList(call') = <<>>
          /\ (call'.raised = "none" /\ call'.name = "submit_order") =>
                 CommandList(call') = <<Effect("command", "SubmitOrder", call'.args.id)>>
          /\ (call'.raised = "none" /\ call'.name = "cancel_order") =>
                 CommandList(call') = <<Effect("command", "CancelOrder", call'.args.id)>>
          /\ (call'.raised = "none" /\ call'.name = "modify_order") =>
                 CommandList(call') =
                     IF call'.args.id.new_quantity = None /\ call'.args.id.new_price = None
                     THEN <<>>
                     ELSE <<Effect("command", "ModifyOrder", call'.args.id.order)>>
          /\ (call'.raised = "none" /\ call'.name = "cancel_all_orders") =>
                 /\ Len(CommandList(call')) = Cardinality(database.orders_working)
                 /\ \A order \in database.orders_working :
                        InList(Effect("command", "CancelOrder", order), CommandList(call'))]_vars

\* cancel_all_orders of a running strategy passed a CancelOrder for each of
\* the two working orders.
C26_Witness ==
    /\ call.name = "cancel_all_orders"
    /\ call.raised = "none"
    /\ call.from = "RUNNING"
    /\ database.orders_working = {1, 2}
    /\ Len(CommandList(call)) = 2

\* C27: save() returns a mapping that holds the count of the order factory
\* under OrderIdCount, the count of the position id generator under
\* PositionIdCount, and every pair on_save returned; it returns such a
\* mapping when on_save raises too.
C27_SaveReturnsState ==
    [][call'.name = "save" =>
          /\ call'.raised = "none"
          /\ Len(call'.result) = 1
          /\ {"OrderIdCount", "PositionIdCount"} \subseteq DOMAIN call'.result[1]
          /\ call'.result[1]["OrderIdCount"] = order_factory
          /\ call'.result[1]["PositionIdCount"] = position_id_generator
          /\ Failed(call', "on_save") \/
                 \A k \in DOMAIN call'.args.id :
                     /\ k \in DOMAIN call'.result[1]
                     /\ call'.result[1][k] = call'.args.id[k]]_vars

\* The name of a reserved key is in the mapping, as str or as bytes.
HasCount(state, key) == key \in DOMAIN state \/ ("b'" \o key \o "'") \in DOMAIN state

\* The count a mapping holds under a reserved key.
CountIn(state, key) ==
    IF key \in DOMAIN state THEN state[key] ELSE DecodeInt(state["b'" \o key \o "'"])

\* C28: load of a mapping that holds neither OrderIdCount nor
\* PositionIdCount, the mapping without entries included, succeeds and
\* leaves the counts of the id generators as they were; load of a mapping
\* that holds one of the keys sets the count of its generator from it, and
\* on_load is invoked after that.
C28_LoadReseeds ==
    [][call'.name = "load" =>
          LET state == call'.args.id
          IN /\ call'.raised = "none"
             /\ Invoked(call', "on_load")
             /\ \A k \in 1..Len(call'.trace) :
                    call'.trace[k].name \in {"order_id_count", "position_id_count"} =>
                        \E j \in Places(call', Effect("callback", "on_load", None)) : k < j
             /\ order_factory' =
                    IF HasCount(state, "OrderIdCount") THEN CountIn(state, "OrderIdCount")
                    ELSE order_factory
             /\ position_id_generator' =
                    IF HasCount(state, "PositionIdCount") THEN CountIn(state, "PositionIdCount")
                    ELSE position_id_generator]_vars

\* ---- claims: messages and the data client ---------------------------------
\* C29: two messages are equal exactly when they have the same category and
\* the same id, whatever their timestamps and payloads; messages that are
\* equal have the same hash; and messages of different categories are not
\* equal even with the same id.
C29_MessageEquality ==
    [][call'.name = "__eq__" =>
          LET self == call'.args.id[1]
              other == call'.args.id[2]
          IN /\ call'.result = <<(self.category = other.category /\ self.id = other.id)>>
             /\ call'.result = <<TRUE>> => Message_hash(self) = Message_hash(other)
             /\ self.category # other.category => call'.result = <<FALSE>>]_vars

\* Two messages of one category and id that differ in timestamp and payload
\* compared equal.
C29_Witness ==
    /\ call.name = "__eq__"
    /\ call.result = <<TRUE>>
    /\ call.args.id[1].ts_init # call.args.id[2].ts_init
    /\ call.args.id[1].payload # call.args.id[2].payload
    /\ call.args.id[1].category = 5

ResponseHandlers ==
    {"_handle_data_response", "_handle_quote_ticks", "_handle_trade_ticks", "_handle_bars"}

\* C30: _handle_data sends its datum once to DataEngine.process and a
\* response handler sends once to DataEngine.response a DataResponse that
\* carries the data and the correlation id it was given; the send to the bus
\* is all a handler does.
C30_HandlersFunnelToBus ==
    [][/\ call'.name = "_handle_data" =>
             call'.trace = <<Effect("send", "DataEngine.process", call'.args.id)>>
       /\ call'.name \in ResponseHandlers =>
             /\ Len(call'.trace) = 1
             /\ call'.trace[1].kind = "send"
             /\ call'.trace[1].name = "DataEngine.response"
             /\ call'.trace[1].id.correlation_id = call'.args.id.correlation_id
             /\ call'.trace[1].id.data = call'.args.id.data
             /\ call'.trace[1].id.client_id \in ClientIds
       /\ call'.name \in ResponseHandlers \cup {"_handle_data"} =>
             /\ call'.raised = "none"
             /\ UNCHANGED <<strategy_vars, account>>]_vars

\* The bars of a request went to DataEngine.response under the correlation
\* id of the request, which is not the id of the response.
C30_Witness ==
    /\ call.name = "_handle_bars"
    /\ call.args.id.correlation_id = 2
    /\ call.args.id.response_id = 1
    /\ call.args.id.data = <<1, 2>>
    /\ Len(call.trace) = 1
    /\ call.trace[1].name = "DataEngine.response"
    /\ call.trace[1].id.correlation_id = 2

\* ---- claims: registration contract -------------------------------------------
RegistrationCalls == {"register_stop_loss", "register_take_profit"}

\* C31: register_stop_loss (register_take_profit) of an order whose id is
\* already in the stop-loss (take-profit) set raises ValueError and leaves
\* both sets unchanged; otherwise it adds exactly that id to that set and
\* leaves the other set unchanged.
C31_RegistrationContract ==
    [][call'.name \in RegistrationCalls =>
          LET order == call'.args.id
              stop_loss == call'.name = "register_stop_loss"
              ids == IF stop_loss THEN _stop_loss_ids ELSE _take_profit_ids
          IN IF order \in ids
             THEN /\ call'.raised = "ValueError"
                  /\ _stop_loss_ids' = _stop_loss_ids
                  /\ _take_profit_ids' = _take_profit_ids
             ELSE /\ call'.raised = "none"
                  /\ _stop_loss_ids' = IF stop_loss THEN _stop_loss_ids \cup {order}
                                       ELSE _stop_loss_ids
                  /\ _take_profit_ids' = IF stop_loss THEN _take_profit_ids
                                         ELSE _take_profit_ids \cup {order}]_vars

C33_RunningImpliesReady ==
    _fsm = "RUNNING" =>
        /\ _data_engine
        /\ _exec_engine
        /\ on_start_completed

\* ---- claims: a failed apply ---------------------------------------------------
\* C34: an apply that fails, for whatever reason, leaves the event log, the
\* number of events and the balances as they were before the call.
C34_FailedApplyLeavesAccount ==
    [][call'.name = "apply" /\ call'.raised # "none" =>
          /\ account'._events = account._events
          /\ Len(account'._events) = Len(account._events)
          /\ account'._balances = account._balances]_vars

\* ---- claims: registrations of a working order ---------------------------------
\* C35: the id of an order registered as stop-loss or take-profit stays in
\* its set for as long as the order is not in a terminal status; a fill that
\* leaves the order PARTIALLY_FILLED does not remove it.
C35_RegisteredWhileNotTerminal ==
    [][order_entity'.status \notin TerminalStatuses =>
          /\ 1 \in _stop_loss_ids => 1 \in _stop_loss_ids'
          /\ 1 \in _take_profit_ids => 1 \in _take_profit_ids']_vars

\* ---- claims: the save and load round trip --------------------------------------
\* C36: load of the mapping that save() returned on a strategy whose order
\* and position id counts were c1 and c2 sets the order factory count of the
\* loading strategy to c1 and its position id generator count to c2.
C36_SaveLoadRoundTrip ==
    [][call'.name = "load" /\ call'.args.type = "saved" =>
          /\ order_factory' = call'.args.id["OrderIdCount"]
          /\ position_id_generator' = call'.args.id["PositionIdCount"]]_vars

\* ---- claims: bracket orders -----------------------------------------------------
\* The SubmitBracketOrder commands call c passed to the execution engine.
BracketCommands(c) ==
    {k \in 1..Len(c.trace) :
        c.trace[k].kind = "command" /\ c.trace[k].name = "SubmitBracketOrder"}

FlattenOrderId == MaxOrders + 1

\* The flatten order of an open position is rejected or denied: it is no
\* longer in flight, the position stays open, and the execution engine passes
\* the event to the strategy.
RejectFlattenOrder ==
    \E type \in {"OrderRejected", "OrderDenied"}, cl_pos_id \in Positions :
        LET event == [type |-> type, id |-> FlattenOrderId]
            s == [Self EXCEPT !.database.positions_flattening = @ \ {cl_pos_id}]
        IN /\ _exec_engine
           /\ cl_pos_id \in database.positions_flattening
           /\ database.positions[cl_pos_id] = "open"
           /\ Return("handle_event", Args(type, FlattenOrderId, FALSE),
                     handle_event(s, event, {}))

\* The opening and closing of positions, on_event returning normally.
HandlePositionChange == DeliverOf(PositionEventTypes, {{}})

\* Positions are opened, flattened and closed, and flatten orders are
\* rejected or denied, while the strategy is started, stopped and reset.
InitReflatten ==
    /\ _data_engine = TRUE
    /\ _exec_engine = TRUE
    /\ Constructed(FALSE, TRUE, FALSE, TRUE)

NextReflatten ==
    \/ Start
    \/ Stop
    \/ Reset
    \/ HandlePositionChange
    \/ FlattenPosition
    \/ RejectFlattenOrder

SpecReflatten == InitReflatten /\ [][NextReflatten]_vars

\* ---- claims: flattening again ---------------------------------------------------
\* C38: flatten_position for an open position that is in the flattening set
\* while no flatten order for it is in flight (its flatten order was rejected
\* or denied) submits a new flatten order: exactly one SubmitOrder command
\* for the position.
C38_FlattenAgainAfterRejection ==
    [][/\ call'.name = "flatten_position"
       /\ _exec_engine
       /\ database.positions[call'.args.id] = "open"
       /\ call'.args.id \in _flattening_ids
       /\ call'.args.id \notin database.positions_flattening
       => Cardinality(Places(call', Effect("command", "SubmitOrder", call'.args.id))) = 1]_vars

\* ---- the lifecycle under both settings of reraise_exceptions ---------------------
\* The lifecycle of a strategy under every setting of the flags, with the
\* callbacks returning or raising.
InitCallbacks ==
    /\ _data_engine = FALSE
    /\ _exec_engine = FALSE
    /\ \E fos \in BOOLEAN, caos \in BOOLEAN, re \in BOOLEAN : Constructed(fos, TRUE, caos, re)

NextCallbacks ==
    \/ RegisterDataEngine
    \/ RegisterExecutionEngine
    \/ Start
    \/ Stop
    \/ Resume
    \/ Reset
    \/ Dispose
    \/ HandlePositionChange

SpecCallbacks == InitCallbacks /\ [][NextCallbacks]_vars

\* ---- claims: exceptions of the lifecycle callbacks -------------------------------
\* C39: a lifecycle call in which a lifecycle callback raised returns to its
\* caller without an exception, whatever reraise_exceptions is; when on_start
\* or on_resume raised, the call began outside RUNNING and ends in STOPPED;
\* when on_stop, on_reset or on_dispose raised, the call ends in STOPPED,
\* INITIALIZED or DISPOSED.
C39_LifecycleCallbackExceptions ==
    [][call'.name \in LifecycleCalls =>
          /\ (\E name \in LifecycleCallbacks : Failed(call', name)) => call'.raised = "none"
          /\ (Failed(call', "on_start") \/ Failed(call', "on_resume")) =>
                 /\ _fsm # "RUNNING"
                 /\ _fsm' = "STOPPED"
          /\ Failed(call', "on_stop") => _fsm' = "STOPPED"
          /\ Failed(call', "on_reset") => _fsm' = "INITIALIZED"
          /\ Failed(call', "on_dispose") => _fsm' = "DISPOSED"]_vars

\* resume() of a strategy that does not reraise: on_resume raised, the forced
\* stop ran on_stop, which raised too, and the strategy is STOPPED.
C39_Witness ==
    /\ call.name = "resume"
    /\ ~reraise_exceptions
    /\ Failed(call, "on_resume")
    /\ Failed(call, "on_stop")
    /\ call.raised = "none"
    /\ _fsm = "STOPPED"

\* ---- lists of ticks and bars ------------------------------------------------------
\* A tick carries its symbol and is identified by its timestamp: one tick of
\* each symbol, the later one first in the alphabet.
SymbolTicks == {[symbol |-> "AUDUSD", id |-> 2], [symbol |-> "GBPUSD", id |-> 1]}

\* The lists of at most MaxBars ticks.
SymbolTickLists == UNION {[1..n -> SymbolTicks] : n \in 0..MaxBars}

\* The lists of at most MaxBars ticks of one symbol.
OneSymbolTickLists == UNION {[1..n -> [symbol : {"AUDUSD"}, id : Ticks]] : n \in 0..MaxBars}

\* An indicator of its own registered for the trade ticks of each symbol.
RegisterTwoForTradeTicks ==
    \/ RegisterForTradeTicks({"AUDUSD"}, {1})
    \/ RegisterForTradeTicks({"GBPUSD"}, {2})

HandleQuoteTicks ==
    \E ticks \in OneSymbolTickLists :
        Return("handle_quote_ticks", Args("", ticks, TRUE), handle_quote_ticks(Self, ticks))

HandleTradeTicks ==
    \E ticks \in SymbolTickLists :
        Return("handle_trade_ticks", Args("", ticks, TRUE), handle_trade_ticks(Self, ticks))

\* Lists of ticks and bars arriving at a strategy, started or not, with
\* an indicator registered for the trade ticks of each symbol and one for
\* the quote ticks of one symbol and for bars.
InitBatch ==
    /\ _data_engine = TRUE
    /\ _exec_engine = TRUE
    /\ Constructed(FALSE, FALSE, FALSE, TRUE)

NextBatch ==
    \/ Start
    \/ RegisterOneForQuoteTicks
    \/ RegisterTwoForTradeTicks
    \/ RegisterOneForBars
    \/ HandleQuoteTicks
    \/ HandleTradeTicks
    \/ HandleBars

SpecBatch == InitBatch /\ [][NextBatch]_vars

\* ---- claims: the batch handlers -----------------------------------------------------
BatchHandlers == {"handle_quote_ticks", "handle_trade_ticks", "handle_bars"}

\* The handler a batch handler passes each element to.
ElementHandler(name) ==
    CASE name = "handle_quote_ticks" -> "handle_quote_tick"
      [] name = "handle_trade_ticks" -> "handle_trade_tick"
      [] name = "handle_bars" -> "handle_bar"

\* The indicators registered for an element of the list of call c, in
\* registration order.
RegisteredForItem(c, item) ==
    CASE c.name = "handle_quote_ticks" -> DictGet(_indicators_for_quotes, item.symbol)
      [] c.name = "handle_trade_ticks" -> DictGet(_indicators_for_trades, item.symbol)
      [] c.name = "handle_bars" -> DictGet(_indicators_for_bars, c.args.type)

\* The timestamp that identifies an element of the list of call c.
ItemId(c, item) == IF c.name = "handle_bars" THEN item ELSE item.id

\* The indicator updates of a call that passes each element of `items`, in
\* list order and once, to the indicators registered for it.
RECURSIVE ExpectedUpdates(_, _)
ExpectedUpdates(c, items) ==
    IF items = <<>> THEN <<>>
    ELSE LET registered == RegisteredForItem(c, Head(items))
         IN [j \in 1..Len(registered) |->
                Effect("indicator", ElementHandler(c.name), registered[j])]
            \o ExpectedUpdates(c, Tail(items))

IsIndicatorUpdate(e) == e.kind = "indicator"

\* The elements of the list of call c that indicator i is registered for.
ItemsOf(c, i) ==
    {k \in 1..Len(c.args.id) : InList(i, RegisteredForItem(c, c.args.id[k]))}

\* Call c passed each element of its list, in list order and exactly once,
\* to the indicators registered for it, invoked no callback and did not
\* fail; every indicator holds the last element it is registered for.
PassedEachElement(c, inputs_before, inputs_after) ==
    /\ c.raised = "none"
    /\ SelectSeq(c.trace, IsIndicatorUpdate) = ExpectedUpdates(c, c.args.id)
    /\ \A k \in 1..Len(c.trace) : c.trace[k].kind # "callback"
    /\ \A i \in Indicators :
          inputs_after[i] =
              IF ItemsOf(c, i) = {} THEN inputs_before[i]
              ELSE ItemId(c, c.args.id[CHOOSE k \in ItemsOf(c, i) :
                                           \A j \in ItemsOf(c, i) : j <= k])

\* C40: handle_quote_ticks, handle_trade_ticks and handle_bars pass each
\* element of the list, in list order and exactly once, to the indicators
\* registered for it and never invoke on_quote_tick, on_trade_tick or on_bar,
\* in any FSM state; an empty list updates nothing and does not fail.
C40_BatchPassesEachElement ==
    [][call'.name \in BatchHandlers =>
          PassedEachElement(call', indicator_inputs, indicator_inputs')]_vars

\* The list is one handle_bars rejects: its first timestamp is greater than
\* its last.
RejectedBars(c) ==
    /\ c.name = "handle_bars"
    /\ Len(c.args.id) > 0
    /\ c.args.id[1] > c.args.id[Len(c.args.id)]

\* C40 (amended): the same for every list of ticks and for every list of
\* bars whose first timestamp is not greater than its last; handle_bars of a
\* list whose first timestamp is greater than its last raises RuntimeError
\* and passes no element to any indicator.
C40_BatchPassesAcceptedLists ==
    [][call'.name \in BatchHandlers =>
          IF RejectedBars(call')
          THEN /\ call'.raised = "RuntimeError"
               /\ SelectSeq(call'.trace, IsIndicatorUpdate) = <<>>
               /\ indicator_inputs' = indicator_inputs
          ELSE PassedEachElement(call', indicator_inputs, indicator_inputs')]_vars

\* handle_trade_ticks in RUNNING of a list of two ticks of different symbols
\* and timestamps, an indicator registered for each symbol: two updates, no
\* callback.
C40_Witness ==
    /\ call.name = "handle_trade_ticks"
    /\ call.from = "RUNNING"
    /\ Len(call.args.id) = 2
    /\ call.args.id[1].symbol = "AUDUSD"
    /\ call.args.id[2].symbol = "GBPUSD"
    /\ Len(SelectSeq(call.trace, IsIndicatorUpdate)) = 2
    /\ call.raised = "none"

====
